---------------------------- MODULE Spec2Model ----------------------------
(***************************************************************************)
(* A model of the study bot's knowledge store and lookup: the parser       *)
(* (extract_definition), normalisation (normalize_term), the per-partition *)
(* searches (search_knowledge of app.py, smart_search of study_bot.py),    *)
(* the cross-partition searches, persistence (load_knowledge and           *)
(* save_knowledge) and the handlers that add, learn and delete.            *)
(*                                                                         *)
(* A Python str is a sequence of characters; a character is a TLA+ string  *)
(* (one character long, except the few characters named below).  Indices  *)
(* in the operators that mirror str.find and slicing are 0-based, as in    *)
(* the source.                                                             *)
(***************************************************************************)
EXTENDS Integers, Sequences, FiniteSets, TLC

VARIABLES
    bot,          \* which program runs: "app" (app.py) or "study" (study_bot.py)
    files,        \* the disk: file name -> [kind, data]
    user_states,  \* study_bot.py user_states: user id -> conversational state
    op,           \* the last handler run: its name, inputs and outputs
    call          \* the last call of a function on drawn inputs, and its result

vars == <<bot, files, user_states, op, call>>

-----------------------------------------------------------------------------
(* Characters and the str methods the source uses.                         *)

EnDash == "ndash"       \* U+2013
EmDash == "mdash"       \* U+2014
Backtick == "btick"     \* U+0060

UpperChars == <<"A", "B", "C", "D", "E", "F", "G", "H", "I", "J", "K", "L", "M",
                "N", "O", "P", "Q", "R", "S", "T", "U", "V", "W", "X", "Y", "Z">>
LowerChars == <<"a", "b", "c", "d", "e", "f", "g", "h", "i", "j", "k", "l", "m",
                "n", "o", "p", "q", "r", "s", "t", "u", "v", "w", "x", "y", "z">>
Digits == <<"0", "1", "2", "3", "4", "5", "6", "7", "8", "9">>

IsUpper(c) == \E i \in DOMAIN UpperChars : UpperChars[i] = c
IsLower(c) == \E i \in DOMAIN LowerChars : LowerChars[i] = c
IsDigit(c) == \E i \in DOMAIN Digits : Digits[i] = c
\* \w of the re module
IsWordChar(c) == IsUpper(c) \/ IsLower(c) \/ IsDigit(c) \/ c = "_"
\* the whitespace of str.strip(), str.split() and \s
IsSpace(c) == c \in {" ", "\n", "\t", "\r"}

SetMin(S) == CHOOSE x \in S : \A y \in S : x <= y
SetMax(S) == CHOOSE x \in S : \A y \in S : x >= y

\* s[a:b] for 0 <= a, b <= len(s)
Slice(s, a, b) == IF a >= b THEN <<>> ELSE SubSeq(s, a + 1, b)

\* str.lower() of one character, then of a string
LowerChar(c) ==
    IF IsUpper(c)
    THEN LowerChars[CHOOSE i \in DOMAIN UpperChars : UpperChars[i] = c]
    ELSE c
str_lower(s) == [i \in 1..Len(s) |-> LowerChar(s[i])]

\* str.strip()
str_strip(s) ==
    LET keep == {i \in 1..Len(s) : ~IsSpace(s[i])}
    IN  IF keep = {} THEN <<>> ELSE SubSeq(s, SetMin(keep), SetMax(keep))

\* sub occurs in s at 0-based index i
StartsAt(s, sub, i) ==
    /\ i >= 0
    /\ i + Len(sub) <= Len(s)
    /\ \A k \in 1..Len(sub) : s[i + k] = sub[k]

\* s.find(sub): the lowest index of sub in s, -1 when there is none
str_find(s, sub) ==
    LET at == {i \in 0..(Len(s) - Len(sub)) : StartsAt(s, sub, i)}
    IN  IF at = {} THEN -1 ELSE SetMin(at)

\* sub in s
str_in(sub, s) == str_find(s, sub) # -1

\* s.split(sep, 1)
str_split1(s, sep) ==
    LET cut(i) == IF i = -1 THEN <<s>>
                  ELSE <<Slice(s, 0, i), Slice(s, i + Len(sep), Len(s))>>
    IN  cut(str_find(s, sep))

\* re.sub(mk (.+?) mk, r'\1', s) from position p on, for a two-character
\* marker mk: the lazy group is at least one character, holds no newline and
\* ends at the first marker that follows it.
RECURSIVE re_sub_marker_from(_, _, _)
re_sub_marker_from(mk, s, p) ==
    IF p >= Len(s) THEN <<>>
    ELSE LET ends == {e \in (p + 3)..(Len(s) - 2) :
                        /\ StartsAt(s, mk, e)
                        /\ \A k \in (p + 3)..e : s[k] # "\n"}
         IN  IF StartsAt(s, mk, p) /\ ends # {}
             THEN LET e == SetMin(ends)
                  IN  Slice(s, p + 2, e) \o re_sub_marker_from(mk, s, e + 2)
             ELSE <<s[p + 1]>> \o re_sub_marker_from(mk, s, p + 1)

\* the two re.sub calls that remove **bold** and __underline__ markers
strip_markdown(text) ==
    re_sub_marker_from(<<"_", "_">>,
                       re_sub_marker_from(<<"*", "*">>, text, 0), 0)

-----------------------------------------------------------------------------
(* normalize_term and extract_definition.                                  *)

normalize_term_nostrip(term) == str_lower(term)
normalize_term_nolower(term) == str_strip(term)

normalize_term(term) == str_strip(str_lower(term))

separators == << <<" ", "-", " ">>, <<":", " ">>, <<" ", "=", " ">>,
                 <<" ", EnDash, " ">>, <<" ", EmDash, " ">> >>

\* (None, None), and a (term, definition) pair
NoPair == [found |-> FALSE, term |-> <<>>, definition |-> <<>>]
Pair(t, d) == [found |-> TRUE, term |-> t, definition |-> d]

\* app.py: the loop over the separators from the k-th on, on the text with
\* the markdown markers removed
RECURSIVE extract_loop(_, _)
extract_loop(text, k) ==
    IF k > Len(separators) THEN NoPair
    ELSE LET sep == separators[k]
             split(parts, term, definition) ==
                 IF str_in(sep, text) /\ Len(parts) = 2
                     /\ term # <<>> /\ definition # <<>>
                 THEN Pair(term, definition)
                 ELSE extract_loop(text, k + 1)
             stripped(parts) == split(parts, str_strip(parts[1]), str_strip(parts[2]))
         IN  stripped(str_split1(text, sep))

extract_definition_keeping_markers(text) == extract_loop(text, 1)

extract_definition(text) == extract_loop(strip_markdown(text), 1)

\* study_bot.py: the term comes from the text without markdown, the
\* definition from the original text after the separator's first occurrence
\* there (from the cleaned text when the original has no occurrence)
RECURSIVE extract_loop_sb(_, _, _)
extract_loop_sb(original_text, text_clean, k) ==
    IF k > Len(separators) THEN NoPair
    ELSE LET sep == separators[k]
             split(parts, term, definition) ==
                 IF str_in(sep, text_clean) /\ Len(parts) = 2
                     /\ term # <<>> /\ definition # <<>>
                 THEN Pair(term, definition)
                 ELSE extract_loop_sb(original_text, text_clean, k + 1)
             found_at(parts, sep_index) ==
                 split(parts, str_strip(parts[1]),
                       IF sep_index # -1
                       THEN str_strip(Slice(original_text, sep_index + Len(sep),
                                            Len(original_text)))
                       ELSE str_strip(parts[2]))
         IN  found_at(str_split1(text_clean, sep), str_find(original_text, sep))

extract_definition_sb(text) == extract_loop_sb(text, strip_markdown(text), 1)

-----------------------------------------------------------------------------
(* difflib.get_close_matches(word, possibilities, n, cutoff), as the       *)
(* standard library computes it: SequenceMatcher with a = the possibility  *)
(* and b = the word, no junk (autojunk needs 200 elements).                *)

\* code point order of the characters the model uses (str comparison)
CodeOrder == <<"\t", "\n", "\r", " ", "!", "#", "(", ")", "*", "+", ",", "-", ".", "/">>
             \o Digits \o <<":", "=", ">", "?">> \o UpperChars
             \o <<"[", "]", "_", Backtick>> \o LowerChars \o <<"{", "|", "}", "~", EnDash, EmDash>>
CharOrd(c) == IF \E i \in DOMAIN CodeOrder : CodeOrder[i] = c
              THEN CHOOSE i \in DOMAIN CodeOrder : CodeOrder[i] = c
              ELSE 0

\* x < y for two str
RECURSIVE str_less(_, _)
str_less(x, y) ==
    IF y = <<>> THEN FALSE
    ELSE IF x = <<>> THEN TRUE
    ELSE IF x[1] = y[1] THEN str_less(Tail(x), Tail(y))
    ELSE CharOrd(x[1]) < CharOrd(y[1])

\* the length of the common run of a from i and b from j (0-based), inside
\* a[:ahi] and b[:bhi]
RECURSIVE common_run(_, _, _, _, _, _)
common_run(a, i, ahi, b, j, bhi) ==
    IF i < ahi /\ j < bhi /\ a[i + 1] = b[j + 1]
    THEN 1 + common_run(a, i + 1, ahi, b, j + 1, bhi)
    ELSE 0

\* SequenceMatcher.find_longest_match: a longest block, of those the one
\* that starts earliest in a, of those the one that starts earliest in b
find_longest_match(a, alo, ahi, b, blo, bhi) ==
    LET starts == (alo..(ahi - 1)) \X (blo..(bhi - 1))
        size(p) == common_run(a, p[1], ahi, b, p[2], bhi)
        best == IF starts = {} THEN 0 ELSE SetMax({size(p) : p \in starts})
    IN  IF best = 0 THEN <<alo, blo, 0>>
        ELSE LET besti == SetMin({p[1] : p \in {q \in starts : size(q) = best}})
                 bestj == SetMin({p[2] : p \in {q \in starts :
                                                  q[1] = besti /\ size(q) = best}})
             IN  <<besti, bestj, best>>

\* the total size of SequenceMatcher.get_matching_blocks
RECURSIVE matching_size(_, _, _, _, _, _)
matching_size(a, alo, ahi, b, blo, bhi) ==
    LET blocks(i, j, k) ==
            IF k = 0 THEN 0
            ELSE k + (IF alo < i /\ blo < j
                      THEN matching_size(a, alo, i, b, blo, j) ELSE 0)
                   + (IF i + k < ahi /\ j + k < bhi
                      THEN matching_size(a, i + k, ahi, b, j + k, bhi) ELSE 0)
        around(m) == blocks(m[1], m[2], m[3])
    IN  around(find_longest_match(a, alo, ahi, b, blo, bhi))

Matches(x, word) == matching_size(x, 0, Len(x), word, 0, Len(word))

\* ratio() >= 0.6, with ratio() = 2.0 * matches / (len(a) + len(b)) and
\* 1.0 for two empty strings (the quick ratios are upper bounds of it)
ratio_ge_cutoff(x, word) ==
    \/ Len(x) + Len(word) = 0
    \/ 10 * Matches(x, word) >= 3 * (Len(x) + Len(word))

\* (ratio(x), x) > (ratio(y), y), the order of heapq.nlargest
scored_greater(x, y, word) ==
    LET greater(rx, ry) == \/ rx > ry
                           \/ rx = ry /\ str_less(y, x)
        \* the ratio of u, times the two denominators
        cross(u, v) == IF Len(u) + Len(word) = 0 THEN Len(v) + Len(word)
                       ELSE Matches(u, word) * (Len(v) + Len(word))
    IN  greater(cross(x, y), cross(y, x))

RECURSIVE nlargest(_, _, _)
nlargest(n, cands, word) ==
    IF n = 0 \/ cands = {} THEN <<>>
    ELSE LET then_rest(top) == <<top>> \o nlargest(n - 1, cands \ {top}, word)
         IN  then_rest(CHOOSE x \in cands :
                          \A y \in cands \ {x} : scored_greater(x, y, word))

get_close_matches(word, possibilities, n) ==
    nlargest(n, {possibilities[i] : i \in {k \in DOMAIN possibilities :
                    ratio_ge_cutoff(possibilities[k], word)}}, word)

-----------------------------------------------------------------------------
(* A knowledge partition is a Python dict: the entries in insertion order, *)
(* one per key.                                                            *)

dict_keys(knowledge) == [i \in 1..Len(knowledge) |-> knowledge[i].key]
dict_has(knowledge, k) == \E i \in DOMAIN knowledge : knowledge[i].key = k
dict_index(knowledge, k) == CHOOSE i \in DOMAIN knowledge : knowledge[i].key = k
dict_get(knowledge, k) == knowledge[dict_index(knowledge, k)].rec
\* an assignment that is lost
dict_set_dropped(knowledge, k, rec) == knowledge
\* knowledge[k] = rec: in place for a key that exists, at the end otherwise
dict_set(knowledge, k, rec) ==
    IF dict_has(knowledge, k)
    THEN [knowledge EXCEPT ![dict_index(knowledge, k)].rec = rec]
    ELSE Append(knowledge, [key |-> k, rec |-> rec])
\* a delete that clears the mapping
dict_del_clearing(knowledge, k) == <<>>
\* del knowledge[k]
dict_del(knowledge, k) == SelectSeq(knowledge, LAMBDA e : e.key # k)

\* an optional field that a record does not have
Absent == <<"<absent>">>

-----------------------------------------------------------------------------
(* The per-partition searches.  A score is the float of the source in      *)
(* millionths; a result is (term, data, score).                            *)

Result(term, data, score) == [term |-> term, data |-> data, score |-> score]

\* a sort the wrong way round, lowest score first
RECURSIVE sort_ascending(_)
sort_ascending(results) ==
    IF results = <<>> THEN <<>>
    ELSE LET m == SetMin({results[i].score : i \in DOMAIN results})
         IN  SelectSeq(results, LAMBDA r : r.score = m)
             \o sort_ascending(SelectSeq(results, LAMBDA r : r.score # m))

\* results.sort(key=score, reverse=True): stable
RECURSIVE sort_from(_, _)
sort_from(results, scores) ==
    IF scores = {} THEN <<>>
    ELSE LET m == SetMax(scores)
         IN  SelectSeq(results, LAMBDA r : r.score = m)
             \o sort_from(results, scores \ {m})
sort_by_score(results) ==
    sort_from(results, {results[i].score : i \in DOMAIN results})

Take_all(results, n) == results

\* results[:n]
Take(results, n) == SubSeq(results, 1, IF Len(results) < n THEN Len(results) ELSE n)

terms_of(results) == {results[i].term : i \in DOMAIN results}

\* app.py, "Partial matches": the loop over knowledge.items() from entry i on
RECURSIVE partial_matches(_, _, _, _)
partial_matches(query_norm, knowledge, i, results) ==
    IF i > Len(knowledge) THEN results
    ELSE LET term == knowledge[i].key
         IN  IF term \notin terms_of(results)
                /\ (str_in(query_norm, term) \/ str_in(term, query_norm))
             THEN partial_matches(query_norm, knowledge, i + 1,
                      Append(results, Result(term, knowledge[i].rec, 800000)))
             ELSE partial_matches(query_norm, knowledge, i + 1, results)

\* "Fuzzy matches": the loop over the close matches from the i-th on
RECURSIVE fuzzy_matches(_, _, _, _, _)
fuzzy_matches(close, knowledge, i, results, score) ==
    IF i > Len(close) THEN results
    ELSE IF close[i] \notin terms_of(results)
         THEN fuzzy_matches(close, knowledge, i + 1,
                  Append(results, Result(close[i], dict_get(knowledge, close[i]), score)),
                  score)
         ELSE fuzzy_matches(close, knowledge, i + 1, results, score)

search_knowledge(query, knowledge) ==
    LET search(query_norm) ==
            LET exact == IF dict_has(knowledge, query_norm)
                         THEN <<Result(query_norm, dict_get(knowledge, query_norm),
                                       1000000)>>
                         ELSE <<>>
                partial == partial_matches(query_norm, knowledge, 1, exact)
                close == get_close_matches(query_norm, dict_keys(knowledge), 3)
                results == fuzzy_matches(close, knowledge, 1, partial, 600000)
            IN  Take(sort_by_score(results), 5)
    IN  search(normalize_term(query))

-----------------------------------------------------------------------------
(* study_bot.py, "smart content analysis": the regular expressions are     *)
(* modelled by what re.findall and re.search return for them.              *)

Bullet == "bullet"      \* U+2022

\* the end (0-based, exclusive) of the longest run of [a-z], of whitespace
\* and of digits that starts at p
LowerRunEnd(text, p) ==
    SetMin({e \in p..Len(text) : e = Len(text) \/ ~IsLower(text[e + 1])})
SpaceRunEnd(text, p) ==
    SetMin({e \in p..Len(text) : e = Len(text) \/ ~IsSpace(text[e + 1])})
DigitRunEnd(text, p) ==
    SetMin({e \in p..Len(text) : e = Len(text) \/ ~IsDigit(text[e + 1])})

\* \b at p, before or after a word character
WordStartsAt(text, p) ==
    /\ p < Len(text) /\ IsWordChar(text[p + 1])
    /\ (p = 0 \/ ~IsWordChar(text[p]))
WordEndsAt(text, e) ==
    /\ e > 0 /\ IsWordChar(text[e])
    /\ (e = Len(text) \/ ~IsWordChar(text[e + 1]))

\* [A-Z][a-z]+ at p: its end, -1 when it does not match
cap_word_end(text, p) ==
    LET word(e) == IF p < Len(text) /\ IsUpper(text[p + 1]) /\ e > p + 1
                   THEN e ELSE -1
    IN  word(LowerRunEnd(text, p + 1))

\* (?:\s+[A-Z][a-z]+)* after a word that ends at e: the ends of the words
\* the greedy repetition takes
RECURSIVE cap_chain(_, _)
cap_chain(text, e) ==
    LET chain(w) == IF w = -1 THEN <<>> ELSE <<w>> \o cap_chain(text, w)
        word_after(s) == chain(IF s > e THEN cap_word_end(text, s) ELSE -1)
    IN  word_after(SpaceRunEnd(text, e))

\* \b[A-Z][a-z]+(?:\s+[A-Z][a-z]+)*\b at p: the repetition gives its last
\* word back when no word boundary follows it
cap_phrase_end(text, p) ==
    LET phrase(ends, n) ==
            IF ~WordStartsAt(text, p) \/ n = 0 THEN -1
            ELSE IF WordEndsAt(text, ends[n]) THEN ends[n]
            ELSE IF n > 1 THEN ends[n - 1]
            ELSE -1
        counted(ends) == phrase(ends, Len(ends))
        words(first) ==
            counted(IF first = -1 THEN <<>> ELSE <<first>> \o cap_chain(text, first))
    IN  words(cap_word_end(text, p))

\* \b[a-z]{4,}\b at p
lower_word_end(text, p) ==
    LET word(e) == IF WordStartsAt(text, p) /\ e - p >= 4 /\ WordEndsAt(text, e)
                   THEN e ELSE -1
    IN  word(LowerRunEnd(text, p))

\* re.findall of the keyword pattern from p on
RECURSIVE findall_words(_, _)
findall_words(text, p) ==
    IF p >= Len(text) THEN <<>>
    ELSE LET matched(e) ==
                 IF e # -1 THEN <<Slice(text, p, e)>> \o findall_words(text, e)
                 ELSE findall_words(text, p + 1)
             either(phrase) == matched(IF phrase # -1 THEN phrase
                                       ELSE lower_word_end(text, p))
         IN  either(cap_phrase_end(text, p))

common_words == {
    <<"t", "h", "e">>, <<"a">>, <<"a", "n">>, <<"a", "n", "d">>, <<"o", "r">>,
    <<"b", "u", "t">>, <<"i", "n">>, <<"o", "n">>, <<"a", "t">>, <<"t", "o">>,
    <<"f", "o", "r">>, <<"o", "f">>, <<"w", "i", "t", "h">>, <<"b", "y">>,
    <<"f", "r", "o", "m">>, <<"a", "s">>, <<"i", "s">>, <<"w", "a", "s">>,
    <<"a", "r", "e">>, <<"w", "e", "r", "e">>, <<"b", "e", "e", "n">>,
    <<"b", "e">>, <<"h", "a", "v", "e">>, <<"h", "a", "s">>,
    <<"h", "a", "d">>, <<"d", "o">>, <<"d", "o", "e", "s">>,
    <<"d", "i", "d">>, <<"w", "i", "l", "l">>, <<"w", "o", "u", "l", "d">>,
    <<"c", "o", "u", "l", "d">>, <<"s", "h", "o", "u", "l", "d">>,
    <<"m", "a", "y">>, <<"m", "i", "g", "h", "t">>, <<"m", "u", "s", "t">>,
    <<"c", "a", "n">>, <<"t", "h", "i", "s">>, <<"t", "h", "a", "t">>,
    <<"t", "h", "e", "s", "e">>, <<"t", "h", "o", "s", "e">>, <<"i", "t">>,
    <<"i", "t", "s">>, <<"w", "h", "i", "c", "h">>, <<"w", "h", "a", "t">>,
    <<"w", "h", "o">>, <<"w", "h", "e", "n">>, <<"w", "h", "e", "r", "e">>,
    <<"s", "h", "a", "l", "l">> }

\* the members of a list in order, each once ("unique, preserving order")
RECURSIVE unique_in_order(_, _)
unique_in_order(xs, seen) ==
    IF xs = <<>> THEN <<>>
    ELSE IF xs[1] \in seen THEN unique_in_order(Tail(xs), seen)
    ELSE <<xs[1]>> \o unique_in_order(Tail(xs), seen \cup {xs[1]})

extract_keywords(text) ==
    LET keywords(words) ==
            SelectSeq([i \in 1..Len(words) |-> str_lower(words[i])],
                      LAMBDA w : w \notin common_words /\ Len(w) > 3)
    IN  Take(unique_in_order(keywords(findall_words(text, 0)), {}), 15)

\* word, \s+, (.+?) at p, case-insensitively: the index where the lazy
\* group starts, -1 when there is no match at p.  The greedy \s+ gives
\* whitespace back until a character other than a newline follows it.
group_start_after(text, p, word) ==
    LET w == p + Len(word)
        group(starts) ==
            IF w <= Len(text) /\ str_lower(Slice(text, p, w)) = word /\ starts # {}
            THEN SetMax(starts)
            ELSE -1
    IN  group({q \in (w + 1)..SpaceRunEnd(text, w) :
                  q < Len(text) /\ text[q + 1] # "\n"})

\* the end of a lazy group (.+?) that starts at q and is followed by one of
\* the characters in stops, or by the end of the text when at_end; -1 when
\* nothing ends it.  A newline is among the stops of every pattern.
lazy_group_end(text, q, stops, at_end) ==
    LET first(ends) == IF ends = {} THEN -1 ELSE SetMin(ends)
    IN  first({e \in (q + 1)..Len(text) :
                  IF e = Len(text) THEN at_end ELSE text[e + 1] \in stops})

\* re.search(words \s+ (.+?) stops): group(1) of the leftmost match from p on
RECURSIVE search_topic(_, _, _, _)
search_topic(text, p, words, stops) ==
    IF p >= Len(text) THEN [found |-> FALSE, group |-> <<>>]
    ELSE LET group(q) ==
                 [found |-> TRUE,
                  group |-> Slice(text, q, lazy_group_end(text, q, stops, TRUE))]
             leftmost(hits) ==
                 IF hits = {} THEN search_topic(text, p + 1, words, stops)
                 ELSE group(group_start_after(text, p, words[SetMin(hits)]))
         IN  leftmost({i \in DOMAIN words :
                          group_start_after(text, p, words[i]) # -1})

topic_words == << <<"t", "h", "e">>, <<"a", "b", "o", "u", "t">>,
                  <<"r", "e", "g", "a", "r", "d", "i", "n", "g">>,
                  <<"c", "o", "n", "c", "e", "r", "n", "i", "n", "g">> >>
of_words == << <<"d", "e", "f", "i", "n", "i", "t", "i", "o", "n", " ", "o", "f">>,
               <<"e", "x", "p", "l", "a", "n", "a", "t", "i", "o", "n", " ", "o", "f">>,
               <<"d", "e", "s", "c", "r", "i", "p", "t", "i", "o", "n", " ", "o", "f">> >>

\* ^(.+?)(?:\n|:)
search_first_line(text) ==
    LET line(e) == IF e = -1 THEN [found |-> FALSE, group |-> <<>>]
                   ELSE [found |-> TRUE, group |-> Slice(text, 0, e)]
    IN  line(IF text = <<>> \/ text[1] = "\n" THEN -1
             ELSE lazy_group_end(text, 0, {"\n", ":"}, FALSE))

\* re.split(r'[.!?]\s+', text)[0]
first_sentence(text) ==
    LET sentence(cuts) == IF cuts = {} THEN text ELSE Slice(text, 0, SetMin(cuts))
    IN  sentence({i \in 0..(Len(text) - 2) :
                     text[i + 1] \in {".", "!", "?"} /\ IsSpace(text[i + 2])})

extract_main_topic(text) ==
    LET \* one pattern: its stripped group when it matches with a group
        \* under 100 characters, the next pattern's otherwise
        topic(found, group, otherwise) ==
            IF found /\ Len(group) < 100 THEN group ELSE otherwise
        pattern(m, otherwise) == topic(m.found, str_strip(m.group), otherwise)
    IN  pattern(search_topic(text, 0, topic_words, {"\n", ":", "."}),
            pattern(search_first_line(text),
                pattern(search_topic(text, 0, of_words, {"\n", "."}),
                    str_strip(Take(first_sentence(text), 100)))))

\* ^ under re.MULTILINE
LineStartsAt(text, p) == p = 0 \/ text[p] = "\n"

\* ^\d+\.\s+ and ^[bullet\-\*]\s+ at a line start p: the index after the
\* marker, where the whitespace starts; -1 when there is no match
number_marker_end(text, p) ==
    LET number(d) ==
            IF LineStartsAt(text, p) /\ d > p /\ d < Len(text) /\ text[d + 1] = "."
               /\ SpaceRunEnd(text, d + 1) > d + 1
            THEN d + 1 ELSE -1
    IN  number(DigitRunEnd(text, p))
bullet_marker_end(text, p) ==
    IF LineStartsAt(text, p) /\ p < Len(text) /\ text[p + 1] \in {Bullet, "-", "*"}
       /\ SpaceRunEnd(text, p + 1) > p + 1
    THEN p + 1 ELSE -1
marker_end(numbered, text, p) ==
    IF numbered THEN number_marker_end(text, p) ELSE bullet_marker_end(text, p)

has_markers(numbered, text) ==
    \E p \in 0..(Len(text) - 1) : marker_end(numbered, text, p) # -1

\* re.findall(marker \s+ (.+?)(?:\n|$), text, re.MULTILINE) from p on: the
\* groups.  The whitespace gives back until a character other than a newline
\* follows; the group runs to the end of its line; the newline is consumed.
RECURSIVE findall_items(_, _, _)
findall_items(numbered, text, p) ==
    IF p >= Len(text) THEN <<>>
    ELSE LET item(q, e) ==
                 <<Slice(text, q, e)>>
                 \o findall_items(numbered, text, IF e < Len(text) THEN e + 1 ELSE e)
             group(q) == item(q, lazy_group_end(text, q, {"\n"}, TRUE))
             marked(w, starts) ==
                 IF w = -1 \/ starts = {} THEN findall_items(numbered, text, p + 1)
                 ELSE group(SetMax(starts))
             after(w) == marked(w, {q \in (w + 1)..SpaceRunEnd(text, w) :
                                       q < Len(text) /\ text[q + 1] # "\n"})
         IN  after(marker_end(numbered, text, p))

has_separator(text) == \E k \in DOMAIN separators : str_in(separators[k], text)
\* len(text.split('\n'))
line_count(text) == 1 + Cardinality({i \in DOMAIN text : text[i] = "\n"})

\* the content types, as the strings of the source
TypeDefinition == <<"d", "e", "f", "i", "n", "i", "t", "i", "o", "n">>
TypeList == <<"l", "i", "s", "t">>
TypeLongForm == <<"l", "o", "n", "g", "_", "f", "o", "r", "m">>
TypeNote == <<"n", "o", "t", "e">>

detect_content_type(text) ==
    LET is_definition == has_separator(text) /\ line_count(text) <= 2
        definition(term, main_topic) ==
            [content_type |-> TypeDefinition,
             main_topic |-> IF term.found THEN term.term ELSE main_topic,
             subtopics |-> <<>>]
        other(has_numbers, has_bullets, found, main_topic) ==
            [content_type |-> IF has_numbers \/ has_bullets THEN TypeList
                              ELSE IF Len(text) > 500 THEN TypeLongForm
                              ELSE TypeNote,
             main_topic |-> main_topic,
             subtopics |-> [i \in 1..Len(found) |-> str_strip(found[i])]]
        listed(has_numbers, has_bullets, main_topic) ==
            other(has_numbers, has_bullets,
                  IF has_numbers THEN findall_items(TRUE, text, 0)
                  ELSE IF has_bullets THEN findall_items(FALSE, text, 0)
                  ELSE <<>>,
                  main_topic)
        typed(main_topic) ==
            IF is_definition
            THEN definition(extract_definition_sb(text), main_topic)
            ELSE listed(has_markers(TRUE, text), has_markers(FALSE, text), main_topic)
    IN  typed(extract_main_topic(text))

\* the entry of create_smart_entry; "added" is set by the caller.  A record
\* that is no definition has no "definition", and no entry has "definitions"
\* until a second definition is added (an empty list here).
create_smart_entry(text, channel_name) ==
    LET entry(d, keywords, definition) ==
            [original_term |-> d.main_topic,
             definition |-> IF d.content_type # TypeDefinition THEN Absent
                            ELSE IF definition.found THEN definition.definition
                            ELSE text,
             definitions |-> <<>>,
             content |-> text,
             content_type |-> d.content_type,
             keywords |-> keywords,
             subtopics |-> d.subtopics,
             added |-> <<>>,
             channel |-> channel_name,
             search_terms |-> <<str_lower(d.main_topic)>> \o keywords
                              \o [i \in 1..Len(d.subtopics) |->
                                      str_lower(d.subtopics[i])]]
    IN  entry(detect_content_type(text), extract_keywords(text),
              extract_definition_sb(text))

\* what users send to study_bot.py as private messages, besides the
\* buttons, and what channels post
StudyTexts ==
    { <<" ", "A", ":", " ", "x">>,
      <<"a">>,
      <<"U", "n", "t", "i", "t", "l", "e", "d", " ", "N", "o", "t", "e">> }

\* str.split(): the words between runs of whitespace
RECURSIVE str_split(_)
str_split(s) ==
    LET t == Slice(s, SpaceRunEnd(s, 0), Len(s))
        ends == {e \in 1..Len(t) : e = Len(t) \/ IsSpace(t[e + 1])}
    IN  IF t = <<>> THEN <<>>
        ELSE <<Slice(t, 0, SetMin(ends))>> \o str_split(Slice(t, SetMin(ends), Len(t)))

Max2(a, b) == IF a >= b THEN a ELSE b
\* the float 0.7 + (keyword_matches * 0.05): 2 * 0.05 and 4 * 0.05 round to
\* just under 0.8 and 0.9, the other sums up to 15 are exact to the cent
keyword_score(k) == 700000 + 50000 * k - (IF k \in {2, 4} THEN 1 ELSE 0)
\* the float 0.5 + (word_match_count / len(query_words) * 0.1)
word_score(m, n) == 500000 + (m * 100000 * 2 + n) \div (2 * n)

\* data.get("content", data.get("definition", ""))
content_of(data) ==
    IF data.content # Absent THEN data.content
    ELSE IF data.definition # Absent THEN data.definition
    ELSE <<>>

\* the score smart_search gives one entry in its loop over knowledge.items()
entry_score(query_norm, query_words, term, data) ==
    LET \* the score after each check of the loop body, last check first
        by_words(score, word_match_count) ==
            IF word_match_count > 0
            THEN Max2(score, word_score(word_match_count, Len(query_words)))
            ELSE score
        by_content(score, content) ==
            IF Len(query_words) > 1 \/ score < 700000
            THEN by_words(IF str_in(query_norm, content)
                          THEN Max2(score, 600000) ELSE score,
                          Cardinality({i \in DOMAIN query_words :
                                          str_in(query_words[i], content)}))
            ELSE score
        by_search_terms(score) ==
            by_content(IF \E i \in DOMAIN data.search_terms :
                              str_in(query_norm, data.search_terms[i])
                       THEN Max2(score, 700000) ELSE score,
                       str_lower(content_of(data)))
        by_subtopics(score) ==
            by_search_terms(IF \E i \in DOMAIN data.subtopics :
                                   str_in(query_norm, str_lower(data.subtopics[i]))
                            THEN Max2(score, 750000) ELSE score)
        by_keywords(main, keyword_matches) ==
            by_subtopics(IF keyword_matches > 0
                         THEN Max2(main, keyword_score(keyword_matches))
                         ELSE main)
    IN  by_keywords(IF query_norm = term THEN 1000000
                    ELSE IF str_in(query_norm, term) \/ str_in(term, query_norm)
                    THEN 900000
                    ELSE 0,
                    Cardinality({i \in DOMAIN data.keywords :
                                    \/ str_in(query_norm, data.keywords[i])
                                    \/ str_in(data.keywords[i], query_norm)}))

\* the loop over knowledge.items() from entry i on
RECURSIVE scored_entries(_, _, _, _)
scored_entries(query_norm, query_words, knowledge, i) ==
    IF i > Len(knowledge) THEN <<>>
    ELSE LET scored(score) ==
                 IF score > 0
                 THEN <<Result(knowledge[i].key, knowledge[i].rec, score)>>
                 ELSE <<>>
         IN  scored(entry_score(query_norm, query_words,
                                knowledge[i].key, knowledge[i].rec))
             \o scored_entries(query_norm, query_words, knowledge, i + 1)

smart_search(query, knowledge) ==
    LET search(query_norm) ==
            LET query_words == str_split(query_norm)
                scored == scored_entries(query_norm, query_words, knowledge, 1)
                close == get_close_matches(query_norm, dict_keys(knowledge), 3)
                results == fuzzy_matches(close, knowledge, 1, scored, 550000)
            IN  Take(sort_by_score(results), 10)
    IN  search(normalize_term(query))

-----------------------------------------------------------------------------
(* Persistence.  The disk maps a file name to the file: absent, with a     *)
(* content that json.load rejects, or with a JSON mapping.  File 0 is      *)
(* knowledge_base.json and file n > 0 is knowledge_bases/knowledge_n.json; *)
(* channel_id None is written NoneId (a chat id is never 0).               *)

DefaultFile == 0
NoneId == 0

AbsentFile == [kind |-> "absent", data |-> <<>>]
CorruptFile == [kind |-> "corrupt", data |-> <<>>]
JsonFile(data) == [kind |-> "json", data |-> data]

\* one file for all the channels
get_knowledge_file_one(channel_id) == 1

\* knowledge_{abs(channel_id)}.json
get_knowledge_file(channel_id) == IF channel_id < 0 THEN -channel_id ELSE channel_id

\* one file for every partition
knowledge_filename_default(channel_id) == DefaultFile

\* the "filename" of load_knowledge and save_knowledge
knowledge_filename(channel_id) ==
    IF channel_id = NoneId THEN DefaultFile ELSE get_knowledge_file(channel_id)

Returned(value) == [raised |-> FALSE, value |-> value]
Raised == [raised |-> TRUE, value |-> <<>>]

load_knowledge_raising(disk, channel_id) ==
    LET f == disk[knowledge_filename(channel_id)]
    IN  IF f.kind = "json" THEN Returned(f.data)
        ELSE IF f.kind = "absent" THEN Returned(<<>>)
        ELSE Raised

\* open() raises FileNotFoundError for an absent file and json.load raises
\* for a content that is not JSON; both are caught and give {}
load_knowledge(disk, channel_id) ==
    LET f == disk[knowledge_filename(channel_id)]
    IN  IF f.kind = "absent" THEN Returned(<<>>)
        ELSE IF f.kind = "corrupt" THEN Returned(<<>>)
        ELSE Returned(f.data)

\* what can happen to a save: it succeeds, open() fails (the file is as it
\* was), or the write fails after open(filename, "w") truncated the file
SaveOutcomes == {"ok", "open_fails", "write_fails"}

\* json.dump(..., ensure_ascii=False) writes a str between quotes, with a
\* backslash before '"' and '\', and \n, \r, \t for those characters; every
\* other character of the model is written as it is
ESCAPE_DCT_plain(c) ==
    IF c = "\"" THEN <<"\\", "\"">>
    ELSE IF c = "\n" THEN <<"\\", "n">>
    ELSE IF c = "\r" THEN <<"\\", "r">>
    ELSE IF c = "\t" THEN <<"\\", "t">>
    ELSE <<c>>

ESCAPE_DCT(c) ==
    IF c = "\\" THEN <<"\\", "\\">>
    ELSE IF c = "\"" THEN <<"\\", "\"">>
    ELSE IF c = "\n" THEN <<"\\", "n">>
    ELSE IF c = "\r" THEN <<"\\", "r">>
    ELSE IF c = "\t" THEN <<"\\", "t">>
    ELSE <<c>>

\* the JSON document json.dump writes for a mapping: an object member for
\* each key in the dict's order, a str as its characters between quotes, a
\* list as an array; a key the dict does not have is not written.  The
\* fields "keywords", "subtopics", "search_terms" and "related" of a record
\* hold lists of str, "definitions" a list of objects, every other a str.
json_dump(data) ==
    LET \* ESCAPE.sub(replace, s): the characters up to the next one that
        \* ESCAPE_DCT changes are written as they are
        RECURSIVE encode(_, _)
        encode(s, i) ==
            IF \A k \in i..Len(s) : ESCAPE_DCT(s[k]) = <<s[k]>>
            THEN SubSeq(s, i, Len(s)) \o <<"\"">>
            ELSE ESCAPE_DCT(s[i]) \o encode(s, i + 1)
        str(s) == IF s = Absent THEN Absent ELSE <<"\"">> \o encode(s, 1)
        array(xs) == [i \in 1..Len(xs) |-> str(xs[i])]
        object(o) == [f \in DOMAIN o |-> str(o[f])]
        value(f, v) ==
            IF f = "definitions" THEN [i \in 1..Len(v) |-> object(v[i])]
            ELSE IF f \in {"keywords", "subtopics", "search_terms", "related"}
            THEN array(v)
            ELSE str(v)
    IN  [i \in 1..Len(data) |->
            [key |-> str(data[i].key),
             rec |-> [f \in DOMAIN data[i].rec |-> value(f, data[i].rec[f])]]]

\* the mapping json.load reads from a document: the characters of a str up
\* to its closing quote, a backslash and the character after it giving one
\* character
json_load(doc) ==
    LET BACKSLASH(c) ==
            IF c = "n" THEN "\n" ELSE IF c = "r" THEN "\r"
            ELSE IF c = "t" THEN "\t" ELSE c
        \* STRINGCHUNK: the characters up to the closing quote are read as
        \* they are when no backslash is among them
        RECURSIVE scanstring(_, _)
        scanstring(t, i) ==
            IF i > Len(t) \/ t[i] = "\"" THEN <<>>
            ELSE IF t[Len(t)] = "\"" /\ \A k \in i..(Len(t) - 1) : t[k] \notin {"\\", "\""}
            THEN SubSeq(t, i, Len(t) - 1)
            ELSE IF t[i] = "\\" /\ i < Len(t)
            THEN <<BACKSLASH(t[i + 1])>> \o scanstring(t, i + 2)
            ELSE <<t[i]>> \o scanstring(t, i + 1)
        str(t) == IF t = Absent THEN Absent ELSE scanstring(t, 2)
        array(xs) == [i \in 1..Len(xs) |-> str(xs[i])]
        object(o) == [f \in DOMAIN o |-> str(o[f])]
        value(f, v) ==
            IF f = "definitions" THEN [i \in 1..Len(v) |-> object(v[i])]
            ELSE IF f \in {"keywords", "subtopics", "search_terms", "related"}
            THEN array(v)
            ELSE str(v)
    IN  [i \in 1..Len(doc) |->
            [key |-> str(doc[i].key),
             rec |-> [f \in DOMAIN doc[i].rec |-> value(f, doc[i].rec[f])]]]

\* a file of the disk is kept as the mapping json.load reads from its text:
\* a successful save leaves what json.load reads from the document written
save_knowledge(disk, data, channel_id, outcome) ==
    LET filename == knowledge_filename(channel_id)
    IN  IF outcome = "ok"
        THEN [disk EXCEPT ![filename] = JsonFile(json_load(json_dump(data)))]
        ELSE IF outcome = "write_fails" THEN [disk EXCEPT ![filename] = CorruptFile]
        ELSE disk

\* knowledge_dir.glob("knowledge_*.json"): the channel files that exist
channel_files(disk) == {f \in DOMAIN disk : f # DefaultFile /\ disk[f].kind # "absent"}

\* the orders in which glob can yield a set of files
Orders(S) == {o \in [1..Cardinality(S) -> S] : \A i, j \in DOMAIN o : i # j => o[i] # o[j]}

\* next(iter(knowledge.values()), {}).get("channel", f"Channel {channel_id}")
\* str(n) for the small integers of the model
IntStr(n) == IF n < 0 THEN <<"-", Digits[1 - n]>> ELSE <<Digits[n + 1]>>
ChannelLabel(channel_id) == <<"C", "h", "a", "n", "n", "e", "l", " ">> \o IntStr(channel_id)
first_channel_name(knowledge, channel_id) ==
    IF knowledge # <<>> /\ knowledge[1].rec.channel # Absent
    THEN knowledge[1].rec.channel
    ELSE ChannelLabel(channel_id)

\* get_all_channels: (channel_id, channel_name, term_count) of every
\* channel file, in glob order, whose mapping is not empty, sorted by
\* term_count, the largest first (sorted is stable)
get_all_channels(disk, order) ==
    LET RECURSIVE channels_from(_)
        channels_from(i) ==
            IF i > Len(order) THEN <<>>
            ELSE LET knowledge == load_knowledge(disk, order[i]).value
                 IN  (IF knowledge # <<>>
                      THEN <<[channel_id |-> order[i],
                              channel_name |-> first_channel_name(knowledge, order[i]),
                              term_count |-> Len(knowledge)]>>
                      ELSE <<>>)
                     \o channels_from(i + 1)
        RECURSIVE sorted_from(_, _)
        sorted_from(channels, counts) ==
            IF counts = {} THEN <<>>
            ELSE SelectSeq(channels, LAMBDA c : c.term_count = SetMax(counts))
                 \o sorted_from(channels, counts \ {SetMax(counts)})
        sorted(channels) ==
            sorted_from(channels, {channels[i].term_count : i \in DOMAIN channels})
    IN  sorted(channels_from(1))

\* the counts of stats: total_channels is the number of channel files that
\* glob lists, total_terms (total_entries in study_bot.py) the number of
\* records of the default file and of the channel files
stats(disk, order) ==
    LET RECURSIVE terms_from(_)
        terms_from(i) ==
            IF i > Len(order) THEN 0
            ELSE Len(load_knowledge(disk, order[i]).value) + terms_from(i + 1)
    IN  [total_channels |-> Len(order),
         total_terms |-> Len(load_knowledge(disk, NoneId).value) + terms_from(1)]

-----------------------------------------------------------------------------
(* app.py: the handlers.  Each returns the disk it leaves and its reply.   *)

ManualSource == <<"m", "a", "n", "u", "a", "l">>

\* an entry of a record's "definitions" list
Item(text, added, source, channel) ==
    [text |-> text, added |-> added, source |-> source, channel |-> channel]

Done(disk, reply) == [disk |-> disk, reply |-> reply]

\* " ".join(context.args), where the framework splits the message text
join_args(args) ==
    IF args = <<>> THEN <<>>
    ELSE LET RECURSIVE join(_)
             join(i) == IF i = 1 THEN args[1] ELSE join(i - 1) \o <<" ">> \o args[i]
         IN  join(Len(args))

\* "Migrate old format": a record without "definitions" gets its old
\* "definition" as the first one
with_definitions(rec) ==
    IF rec.definitions # <<>> THEN rec
    ELSE [rec EXCEPT !.definitions =
             <<Item(IF rec.definition = Absent THEN <<>> ELSE rec.definition,
                    rec.added, Absent, Absent)>>]

add_term_key_raw(term) == term

\* term_norm of add_term
add_term_key(term) == normalize_term(term)

\* add_term after its argument and parse checks: load, add, save
add_term_store(disk, term, definition, date, outcome) ==
    LET knowledge == load_knowledge(disk, NoneId).value
        term_norm == add_term_key(term)
        item == Item(definition, date, ManualSource, Absent)
        updated ==
            IF dict_has(knowledge, term_norm)
            THEN dict_set(knowledge, term_norm,
                     [with_definitions(dict_get(knowledge, term_norm))
                          EXCEPT !.definitions = Append(@, item)])
            ELSE dict_set(knowledge, term_norm,
                     [original_term |-> term, definitions |-> <<item>>,
                      definition |-> Absent, added |-> date,
                      channel |-> Absent, related |-> <<>>])
    IN  Done(save_knowledge(disk, updated, NoneId, outcome),
             IF dict_has(knowledge, term_norm) THEN "added_another" ELSE "added")

\* an /add that stores what it could not parse
add_term_storing_unparsed(disk, message, date, outcome) ==
    LET args == str_split(message)
        parsed == extract_definition(join_args(args))
    IN  IF Len(args) < 2 THEN Done(disk, "usage")
        ELSE add_term_store(disk, parsed.term, parsed.definition, date, outcome)

\* /add with the text after the command
add_term(disk, message, date, outcome) ==
    LET args == str_split(message)
        parsed == extract_definition(join_args(args))
    IN  IF Len(args) < 2 THEN Done(disk, "usage")
        ELSE IF ~parsed.found THEN Done(disk, "could_not_parse")
        ELSE add_term_store(disk, parsed.term, parsed.definition, date, outcome)

\* a channel post with (text or caption) = text in channel channel_id
handle_channel_message(disk, channel_id, channel_name, text, date, outcome) ==
    LET parsed == extract_definition(text)
        knowledge == load_knowledge(disk, channel_id).value
        term_norm == normalize_term(parsed.term)
        item == Item(parsed.definition, date, Absent, channel_name)
        updated ==
            IF dict_has(knowledge, term_norm)
            THEN dict_set(knowledge, term_norm,
                     [with_definitions(dict_get(knowledge, term_norm))
                          EXCEPT !.definitions = Append(@, item)])
            ELSE dict_set(knowledge, term_norm,
                     [original_term |-> parsed.term, definitions |-> <<item>>,
                      definition |-> Absent, added |-> date,
                      channel |-> channel_name, related |-> <<>>])
    IN  IF text = <<>> \/ ~parsed.found THEN Done(disk, "none")
        ELSE Done(save_knowledge(disk, updated, channel_id, outcome), "none")

\* the loop of delete_term over the channel files in glob order, from the
\* i-th on; outcomes[f] is what happens to a save of file f
RECURSIVE delete_from_channels(_, _, _, _, _)
delete_from_channels(disk, term_norm, order, i, outcomes) ==
    IF i > Len(order) THEN [disk |-> disk, deleted_from |-> <<>>]
    ELSE LET channel_id == order[i]
             knowledge == load_knowledge(disk, channel_id).value
             hit == dict_has(knowledge, term_norm)
             channel_name ==
                 IF dict_get(knowledge, term_norm).channel # Absent
                 THEN dict_get(knowledge, term_norm).channel
                 ELSE ChannelLabel(channel_id)
             saved == IF hit
                      THEN save_knowledge(disk, dict_del(knowledge, term_norm),
                                          channel_id, outcomes[channel_id])
                      ELSE disk
             rest == delete_from_channels(saved, term_norm, order, i + 1, outcomes)
         IN  [disk |-> rest.disk,
              deleted_from |-> (IF hit THEN <<channel_name>> ELSE <<>>)
                               \o rest.deleted_from]

\* "Manual", the first entry of deleted_from
ManualLabel == <<"M", "a", "n", "u", "a", "l">>

\* a delete that writes the default file back whether it held the key or not
delete_everywhere_always_saving(disk, term, order, outcomes) ==
    LET term_norm == normalize_term(term)
        default_knowledge == load_knowledge(disk, NoneId).value
        saved == save_knowledge(disk, dict_del(default_knowledge, term_norm),
                                NoneId, outcomes[DefaultFile])
        rest == delete_from_channels(saved, term_norm, order, 1, outcomes)
    IN  [disk |-> rest.disk,
         deleted_from |-> (IF dict_has(default_knowledge, term_norm)
                           THEN <<ManualLabel>> ELSE <<>>) \o rest.deleted_from]

\* delete_term after its argument check, and the delete step of
\* study_bot.py's handle_message: the default file, then every channel file
delete_everywhere(disk, term, order, outcomes) ==
    LET term_norm == normalize_term(term)
        default_knowledge == load_knowledge(disk, NoneId).value
        hit == dict_has(default_knowledge, term_norm)
        saved == IF hit
                 THEN save_knowledge(disk, dict_del(default_knowledge, term_norm),
                                     NoneId, outcomes[DefaultFile])
                 ELSE disk
        rest == delete_from_channels(saved, term_norm, order, 1, outcomes)
    IN  [disk |-> rest.disk,
         deleted_from |-> (IF hit THEN <<ManualLabel>> ELSE <<>>) \o rest.deleted_from]

delete_term(disk, message, order, outcomes) ==
    LET args == str_split(message)
        replied(d) ==
            [disk |-> d.disk,
             reply |-> IF d.deleted_from # <<>> THEN "deleted" ELSE "not_found",
             deleted_from |-> d.deleted_from]
    IN  IF args = <<>> THEN [disk |-> disk, reply |-> "usage", deleted_from |-> <<>>]
        ELSE replied(delete_everywhere(disk, join_args(args), order, outcomes))

\* a result of a cross-partition search: (term, data, score, channel_name,
\* channel_id)
Tagged(results, channel_name, channel_id) ==
    [i \in 1..Len(results) |->
        [term |-> results[i].term, data |-> results[i].data,
         score |-> results[i].score, channel_name |-> channel_name,
         channel_id |-> channel_id]]

\* the results of the channel files in glob order, from the i-th on
\* (app.py, search_term)
RECURSIVE channel_results(_, _, _, _)
channel_results(disk, query, order, i) ==
    IF i > Len(order) THEN <<>>
    ELSE LET channel_id == order[i]
             knowledge == load_knowledge(disk, channel_id).value
         IN  (IF knowledge # <<>>
              THEN Tagged(search_knowledge(query, knowledge),
                          first_channel_name(knowledge, channel_id), channel_id)
              ELSE <<>>)
             \o channel_results(disk, query, order, i + 1)

\* the results of the channel files in glob order, from the i-th on
\* (study_bot.py, search_content)
RECURSIVE channel_results_sb(_, _, _, _)
channel_results_sb(disk, query, order, i) ==
    IF i > Len(order) THEN <<>>
    ELSE LET channel_id == order[i]
             knowledge == load_knowledge(disk, channel_id).value
         IN  (IF knowledge # <<>>
              THEN Tagged(smart_search(query, knowledge),
                          first_channel_name(knowledge, channel_id), channel_id)
              ELSE <<>>)
             \o channel_results_sb(disk, query, order, i + 1)

\* "Remove duplicate terms": the first occurrence of each term, up to 5
RECURSIVE unique_results(_, _, _)
unique_results(all_results, i, kept) ==
    IF i > Len(all_results) \/ Len(kept) >= 5 THEN kept
    ELSE IF \E j \in DOMAIN kept : kept[j].term = all_results[i].term
         THEN unique_results(all_results, i + 1, kept)
         ELSE unique_results(all_results, i + 1, Append(kept, all_results[i]))

\* the concatenation of the per-partition results: the default knowledge
\* base first, then the channel files
all_results_channels_first(disk, query, manual_label, order) ==
    LET default_knowledge == load_knowledge(disk, NoneId).value
    IN  channel_results(disk, query, order, 1)
        \o (IF default_knowledge # <<>>
            THEN Tagged(search_knowledge(query, default_knowledge), manual_label, 0)
            ELSE <<>>)

all_results_of(disk, query, manual_label, order) ==
    LET default_knowledge == load_knowledge(disk, NoneId).value
    IN  (IF default_knowledge # <<>>
         THEN Tagged(search_knowledge(query, default_knowledge), manual_label, 0)
         ELSE <<>>)
        \o channel_results(disk, query, order, 1)

all_results_of_sb(disk, query, manual_label, order) ==
    LET default_knowledge == load_knowledge(disk, NoneId).value
    IN  (IF default_knowledge # <<>>
         THEN Tagged(smart_search(query, default_knowledge), manual_label, 0)
         ELSE <<>>)
        \o channel_results_sb(disk, query, order, 1)

\* the sort of the concatenation, and the results shown
shown_unsorted(all_results) == unique_results(all_results, 1, <<>>)
shown_results(all_results) == unique_results(sort_by_score(all_results), 1, <<>>)

\* search_term of app.py with the text after /search, or the whole text of
\* a direct message
search_term(disk, message, order) ==
    LET args == str_split(message)
        replied(all_results) ==
            IF all_results = <<>>
            THEN [reply |-> "no_results", all_results |-> <<>>, shown |-> <<>>]
            ELSE [reply |-> "results", all_results |-> all_results,
                  shown |-> shown_results(all_results)]
    IN  IF args = <<>> THEN [reply |-> "usage", all_results |-> <<>>, shown |-> <<>>]
        ELSE replied(all_results_of(disk, join_args(args), ManualSource, order))

\* handle_message of app.py: a private text message is a search query
handle_message_app(disk, message_text, order) ==
    IF message_text = <<>> \/ message_text[1] = "/"
    THEN [reply |-> "none", all_results |-> <<>>, shown |-> <<>>]
    ELSE search_term(disk, message_text, order)

-----------------------------------------------------------------------------
(* study_bot.py: the handlers.                                             *)

\* the texts of the menu buttons; each starts with an emoji
BtnSearch == <<"emoji_search", " ">> \o <<"S", "e", "a", "r", "c", "h">>
BtnListAll == <<"emoji_books", " ">> \o <<"L", "i", "s", "t", " ", "A", "l", "l">>
BtnChannels == <<"emoji_tv", " ">> \o <<"C", "h", "a", "n", "n", "e", "l", "s">>
BtnStatistics == <<"emoji_chart", " ">> \o <<"S", "t", "a", "t", "i", "s", "t", "i", "c", "s">>
BtnSaveNote == <<"emoji_memo", " ">> \o <<"S", "a", "v", "e", " ", "N", "o", "t", "e">>
BtnDelete == <<"emoji_bin", " ">> \o <<"D", "e", "l", "e", "t", "e">>
BtnHelp == <<"emoji_info", " ">> \o <<"H", "e", "l", "p">>

UntitledNote == <<"U", "n", "t", "i", "t", "l", "e", "d", " ", "N", "o", "t", "e">>
UntitledNoteLower == <<"U", "n", "t", "i", "t", "l", "e", "d", " ", "n", "o", "t", "e">>

\* user_states.get(user_id) is None for a user without an entry and for one
\* whose entry is None; both are written "None"
StateNone == "None"
AwaitingNote == "awaiting_note"
AwaitingDelete == "awaiting_delete"

\* a record whose definitions are dropped
with_definitions_sb_dropping(rec, source) ==
    [rec EXCEPT !.definition = Absent, !.definitions = <<>>]

\* a record of content type "definition" without "definitions" gets its
\* popped "definition" as the first one, when that is not empty
with_definitions_sb(rec, source) ==
    IF rec.definitions # <<>> THEN rec
    ELSE [rec EXCEPT !.definition = Absent,
                     !.definitions =
                         IF rec.definition = Absent \/ rec.definition = <<>> THEN <<>>
                         ELSE <<Item(rec.definition, rec.added, source, Absent)>>]

search_content(disk, message_text, order) ==
    LET query == str_strip(message_text)
        replied(all_results) ==
            IF all_results = <<>>
            THEN [reply |-> "no_results", all_results |-> <<>>, shown |-> <<>>]
            ELSE [reply |-> "results", all_results |-> all_results,
                  shown |-> shown_results(all_results)]
    IN  replied(all_results_of_sb(disk, query, ManualLabel, order))

\* the save step of handle_message, for a user in awaiting_note
save_step(disk, states, user_id, made_of_text, date, outcome) ==
    LET save_note(made, term_norm, knowledge) ==
            LET entry == [made EXCEPT !.added = date]
                existing == dict_get(knowledge, term_norm)
                another == /\ dict_has(knowledge, term_norm)
                           /\ made.content_type = TypeDefinition
                           /\ existing.content_type = TypeDefinition
                updated ==
                    IF another
                    THEN dict_set(knowledge, term_norm,
                             [with_definitions_sb(existing, ManualSource)
                                  EXCEPT !.definitions =
                                      Append(@, Item(made.definition, date,
                                                     ManualSource, Absent))])
                    ELSE dict_set(knowledge, term_norm, entry)
            IN  [disk |-> save_knowledge(disk, updated, NoneId, outcome),
                 states |-> [states EXCEPT ![user_id] = StateNone],
                 reply |-> IF another THEN "added_another"
                           ELSE IF dict_has(knowledge, term_norm)
                                   /\ made.content_type = TypeDefinition
                           THEN "updated" ELSE "saved"]
        checked(made) ==
            IF made.original_term \in {UntitledNote, UntitledNoteLower}
               /\ made.content_type \in {TypeNote, TypeLongForm}
            THEN [disk |-> disk, states |-> states, reply |-> "no_topic"]
            ELSE save_note(made, normalize_term(made.original_term),
                           load_knowledge(disk, NoneId).value)
    IN  checked(made_of_text)

\* a try block that takes a menu button for the input it awaits
handle_message_try_state_first(disk, states, user_id, message_text, made, date, order, outcomes) ==
    LET text == str_strip(message_text)
        saved == save_step(disk, states, user_id, made, date, outcomes[DefaultFile])
        deleted == delete_everywhere(disk, text, order, outcomes)
        found == search_content(disk, message_text, order)
    IN  IF states[user_id] = AwaitingNote
        THEN [disk |-> saved.disk, states |-> saved.states, deleted_from |-> <<>>,
              shown |-> <<>>, reply |-> saved.reply]
        ELSE IF states[user_id] = AwaitingDelete
        THEN [disk |-> deleted.disk, states |-> [states EXCEPT ![user_id] = StateNone],
              deleted_from |-> deleted.deleted_from, shown |-> <<>>,
              reply |-> IF deleted.deleted_from # <<>> THEN "deleted" ELSE "not_found"]
        ELSE [disk |-> disk, states |-> states, deleted_from |-> <<>>,
              shown |-> found.shown, reply |-> found.reply]

\* the try block of handle_message of study_bot.py for a private text
\* message, with every reply_text delivered
handle_message_try(disk, states, user_id, message_text, made, date, order, outcomes) ==
    LET text == str_strip(message_text)
        same == [disk |-> disk, states |-> states, deleted_from |-> <<>>,
                 shown |-> <<>>]
        after_save(saved) ==
            [same EXCEPT !.disk = saved.disk, !.states = saved.states]
                @@ [reply |-> saved.reply]
        after_delete(deleted) ==
            [disk |-> deleted.disk,
             states |-> [states EXCEPT ![user_id] = StateNone],
             deleted_from |-> deleted.deleted_from, shown |-> <<>>,
             reply |-> IF deleted.deleted_from # <<>> THEN "deleted" ELSE "not_found"]
        after_search(found) ==
            [same EXCEPT !.shown = found.shown] @@ [reply |-> found.reply]
    IN  IF message_text = <<>> \/ message_text[1] = "/"
        THEN same @@ [reply |-> "none"]
        ELSE IF text = BtnSearch THEN same @@ [reply |-> "search_hint"]
        ELSE IF text = BtnListAll THEN same @@ [reply |-> "list"]
        ELSE IF text = BtnChannels THEN same @@ [reply |-> "channels"]
        ELSE IF text = BtnStatistics THEN same @@ [reply |-> "statistics"]
        ELSE IF text = BtnSaveNote
        THEN [same EXCEPT !.states = [states EXCEPT ![user_id] = AwaitingNote]]
             @@ [reply |-> "save_prompt"]
        ELSE IF text = BtnDelete
        THEN [same EXCEPT !.states = [states EXCEPT ![user_id] = AwaitingDelete]]
             @@ [reply |-> "delete_prompt"]
        ELSE IF text = BtnHelp THEN same @@ [reply |-> "help"]
        ELSE IF states[user_id] = AwaitingNote
        THEN after_save(save_step(disk, states, user_id, made, date,
                                  outcomes[DefaultFile]))
        ELSE IF states[user_id] = AwaitingDelete
        THEN after_delete(delete_everywhere(disk, text, order, outcomes))
        ELSE after_search(search_content(disk, message_text, order))

\* how many reply_text calls of one handler raise, from its first on
RepliesRaising == 0..3

\* an except clause that does not pop the user's state
handle_message_except_keeping_state(tried, states, user_id, message_text, raising) ==
    LET text == str_strip(message_text)
        own_error ==
            IF text = BtnListAll THEN "list_error"
            ELSE IF text = BtnChannels THEN "channels_error"
            ELSE IF text = BtnStatistics THEN "statistics_error"
            ELSE IF text \notin {BtnSearch, BtnSaveNote, BtnDelete, BtnHelp}
                    /\ states[user_id] \notin {AwaitingNote, AwaitingDelete}
            THEN "search_error"
            ELSE "none"
        caught(left) ==
            [tried EXCEPT !.shown = <<>>,
                          !.reply = IF left = 1 THEN "error" ELSE "raised"]
    IN  IF raising = 0 \/ tried.reply = "none" THEN tried
        ELSE IF own_error = "none" THEN caught(raising)
        ELSE IF raising = 1 THEN [tried EXCEPT !.shown = <<>>, !.reply = own_error]
        ELSE caught(raising - 1)

\* what becomes of the try block's result when reply_text raises.
\* list_terms, show_channels, stats and search_content catch the exception
\* in their own except clause, reply with their own error and leave
\* user_states alone; when that reply raises too, and in every other
\* branch, the except clause of handle_message pops the user's state and
\* replies with the general error; when that reply raises, the exception
\* leaves the handler ("raised").  A branch that returns without a reply
\* raises nothing.
handle_message_except(tried, states, user_id, message_text, raising) ==
    LET text == str_strip(message_text)
        own_error ==
            IF text = BtnListAll THEN "list_error"
            ELSE IF text = BtnChannels THEN "channels_error"
            ELSE IF text = BtnStatistics THEN "statistics_error"
            ELSE IF text \notin {BtnSearch, BtnSaveNote, BtnDelete, BtnHelp}
                    /\ states[user_id] \notin {AwaitingNote, AwaitingDelete}
            THEN "search_error"
            ELSE "none"
        caught(left) ==
            [tried EXCEPT !.states = [tried.states EXCEPT ![user_id] = StateNone],
                          !.shown = <<>>,
                          !.reply = IF left = 1 THEN "error" ELSE "raised"]
    IN  IF raising = 0 \/ tried.reply = "none" THEN tried
        ELSE IF own_error = "none" THEN caught(raising)
        ELSE IF raising = 1 THEN [tried EXCEPT !.shown = <<>>, !.reply = own_error]
        ELSE caught(raising - 1)

\* handle_message of study_bot.py
handle_message(disk, states, user_id, message_text, date, order, outcomes, raising) ==
    handle_message_except(
        handle_message_try(disk, states, user_id, message_text,
                           create_smart_entry(str_strip(message_text), ManualLabel),
                           date, order, outcomes),
        states, user_id, message_text, raising)

\* a channel post with (text or caption) = text
handle_channel_message_sb(disk, channel_id, channel_name, text, made_of_text, date, outcome) ==
    LET learn(made, main_topic_norm, knowledge) ==
            LET entry == [made EXCEPT !.added = date]
                existing == dict_get(knowledge, main_topic_norm)
                another == /\ dict_has(knowledge, main_topic_norm)
                           /\ made.content_type = TypeDefinition
                           /\ existing.content_type = TypeDefinition
                updated ==
                    IF another
                    THEN dict_set(knowledge, main_topic_norm,
                             [with_definitions_sb(existing, Absent)
                                  EXCEPT !.definitions =
                                      Append(@, Item(made.definition, date,
                                                     Absent, channel_name))])
                    ELSE dict_set(knowledge, main_topic_norm, entry)
            IN  Done(save_knowledge(disk, updated, channel_id, outcome), "none")
        checked(made) ==
            IF made.original_term = UntitledNote /\ made.content_type = TypeNote
               /\ Len(str_split(text)) < 10
            THEN Done(disk, "none")
            ELSE learn(made, normalize_term(made.original_term),
                       load_knowledge(disk, channel_id).value)
    IN  IF text = <<>> THEN Done(disk, "none")
        ELSE checked(made_of_text)

-----------------------------------------------------------------------------
(* The functions on their own: SpecParse draws a text and applies          *)
(* normalize_term and the two extract_definition to it.                    *)

NoCall == [name |-> "none"]
NoStore == /\ bot = "none" /\ files = <<>> /\ user_states = <<>> /\ op = [name |-> "none"]

MaxTokens == 3

Tokens ==
    {<<"a">>, <<"B">>, <<" ">>, <<"*", "*">>, <<"_", "_">>} \cup
    {separators[k] : k \in DOMAIN separators}

\* the concatenations of at most n tokens
RECURSIVE TokenTexts(_)
TokenTexts(n) ==
    IF n = 0 THEN {<<>>}
    ELSE LET shorter == TokenTexts(n - 1)
         IN  shorter \cup {t \o k : t \in shorter, k \in Tokens}

SampleTexts ==
    {<<"*", "*", "a", "*", "*", " ", "-", " ", "a">>,
     <<" ", "-", " ", "a", " ", "-", " ", "a">>,
     <<"a", ":", "*", "*", " ", "*", "*", "a">>,
     <<"a", ":", "*", "*", " ", "*", "*", "B", ":", " ", "a">>,
     <<"a", " ", "-", "*", "*", " ", "*", "*", "B", " ", "-", " ">>,
     <<"*", "*", "a", " ", "-", " ", "B", "*", "*", " ", "-", " ", "a">>,
     <<"_", "_", "a", "_", "_", " ", "=", " ", "B">>,
     <<"a", "\n", ":", " ", "B">>,
     <<" ", " ", "A", " ", " ", ":", " ", " ", "a", " ", "B", " ", " ">>}

Texts == TokenTexts(MaxTokens) \cup SampleTexts

InitParse ==
    /\ NoStore
    /\ call \in {[name |-> "input", text |-> t] : t \in Texts}

NormalizeTerm ==
    /\ call.name = "input"
    /\ call' = [name |-> "normalize_term", text |-> call.text,
                out |-> normalize_term(call.text)]
    /\ UNCHANGED <<bot, files, user_states, op>>

ExtractDefinition ==
    /\ call.name = "input"
    /\ call' = [name |-> "extract_definition", text |-> call.text,
                out |-> extract_definition(call.text)]
    /\ UNCHANGED <<bot, files, user_states, op>>

ExtractDefinitionSb ==
    /\ call.name = "input"
    /\ call' = [name |-> "extract_definition_sb", text |-> call.text,
                out |-> extract_definition_sb(call.text)]
    /\ UNCHANGED <<bot, files, user_states, op>>

NextParse == NormalizeTerm \/ ExtractDefinition \/ ExtractDefinitionSb

SpecParse == InitParse /\ [][NextParse]_vars

-----------------------------------------------------------------------------
(* Properties of normalize_term and extract_definition (SpecParse).        *)

\* the 0-based indices at which sep occurs in s
OccursAt(s, sep) == {i \in 0..(Len(s) - Len(sep)) : StartsAt(s, sep, i)}

\* the trimmed sides of s around the occurrence of sep at index i
SidesAt(s, sep, i) ==
    [term |-> str_strip(Slice(s, 0, i)),
     definition |-> str_strip(Slice(s, i + Len(sep), Len(s)))]

TwoSides(p) == p.term # <<>> /\ p.definition # <<>>

OutPair(out) == [term |-> out.term, definition |-> out.definition]

\* the separators (by place in the list) whose first occurrence in s has
\* two non-empty trimmed sides
Splitting(s) ==
    {k \in DOMAIN separators :
        /\ OccursAt(s, separators[k]) # {}
        /\ TwoSides(SidesAt(s, separators[k], SetMin(OccursAt(s, separators[k]))))}

\* the split of s at the first occurrence of the first separator of the
\* list that splits it
FirstSplit(s) ==
    LET sep == separators[SetMin(Splitting(s))]
    IN  SidesAt(s, sep, SetMin(OccursAt(s, sep)))

\* C6, as amended: app.py extract_definition(text) works on the text with
\* the ** and __ markers removed: if a supported separator's first
\* occurrence in that text has non-empty trimmed text on both sides, the
\* result is the pair of trimmed sides around the first occurrence of the
\* first such separator in list order; otherwise (in particular when that
\* text holds no supported separator) the result is (None, None).
C6_SplitOfCleanedText ==
    call.name = "extract_definition" =>
        LET cleaned == strip_markdown(call.text)
        IN  IF Splitting(cleaned) # {}
            THEN call.out.found /\ OutPair(call.out) = FirstSplit(cleaned)
            ELSE ~call.out.found

\* C6 witness: a text with markers around the term was parsed, and the term
\* returned is without them
C6_ParsedMarkedText ==
    /\ call.name = "extract_definition"
    /\ call.out.found
    /\ strip_markdown(call.text) # call.text
    /\ Splitting(call.text) # {}
    /\ OutPair(call.out) # FirstSplit(call.text)

\* C6 as stated: a text that contains a supported separator with non-empty
\* trimmed text on both sides gives exactly that pair, and a text that
\* contains no supported separator gives (None, None).
C6_PairOfTheText ==
    call.name = "extract_definition" =>
        LET occurring ==
                {p \in UNION {{SidesAt(call.text, separators[k], i) :
                                  i \in OccursAt(call.text, separators[k])} :
                              k \in DOMAIN separators} : TwoSides(p)}
        IN  /\ occurring # {} => call.out.found /\ OutPair(call.out) \in occurring
            /\ (\A k \in DOMAIN separators : OccursAt(call.text, separators[k]) = {})
                   => ~call.out.found

\* a string without the characters of the ** and __ markers
RECURSIVE WithoutMarkerChars(_)
WithoutMarkerChars(s) ==
    IF s = <<>> THEN <<>>
    ELSE (IF Head(s) \in {"*", "_"} THEN <<>> ELSE <<Head(s)>>)
         \o WithoutMarkerChars(Tail(s))

\* C7: extract_definition (of app.py and of study_bot.py) tries the
\* separators in list order and splits once, at the first occurrence of the
\* chosen separator: the term is the trimmed text before it and the
\* definition the whole trimmed remainder after it (compared here up to
\* marker characters, which study_bot.py keeps in the definition); a
\* separator whose split leaves an empty side is skipped, and the result is
\* (None, None) only when no separator yields two non-empty sides.
C7_SplitsOnceAtFirstOccurrence ==
    call.name \in {"extract_definition", "extract_definition_sb"} =>
        LET cleaned == strip_markdown(call.text)
        IN  IF Splitting(cleaned) # {}
            THEN /\ call.out.found
                 /\ call.out.term = FirstSplit(cleaned).term
                 /\ WithoutMarkerChars(call.out.definition)
                      = WithoutMarkerChars(FirstSplit(cleaned).definition)
            ELSE ~call.out.found

\* str.upper() and str.swapcase() of a string
UpperChar(c) ==
    IF IsLower(c)
    THEN UpperChars[CHOOSE i \in DOMAIN LowerChars : LowerChars[i] = c]
    ELSE c
str_upper(s) == [i \in 1..Len(s) |-> UpperChar(s[i])]
str_swapcase(s) == [i \in 1..Len(s) |-> IF IsUpper(s[i]) THEN LowerChar(s[i]) ELSE UpperChar(s[i])]

Paddings == {<<>>, <<" ">>, <<"\n", " ">>, <<"\t">>}

\* strings that differ from s only in letter case and in surrounding
\* whitespace
Respellings(s) ==
    {l \o c \o r : l \in Paddings, r \in Paddings,
                   c \in {s, str_upper(s), str_swapcase(s)}}

\* C8: normalize_term is idempotent, and strings that differ only in letter
\* case or in leading and trailing whitespace normalize to the same key.
C8_NormalizeIdempotentInsensitive ==
    call.name = "normalize_term" =>
        /\ normalize_term(call.out) = call.out
        /\ \A t \in Respellings(call.text) : normalize_term(t) = call.out

\* C8 witness: a text with an upper-case letter and surrounding whitespace
\* was normalized to something else
C8_NormalizedMixedText ==
    /\ call.name = "normalize_term"
    /\ call.out # call.text
    /\ call.out # <<>>
    /\ \E i \in DOMAIN call.text : IsUpper(call.text[i])
    /\ IsSpace(call.text[1])

-----------------------------------------------------------------------------
(* The disk of the model, and what every specification shares.             *)

\* chat ids of the channels
ChannelIds == {-1, 2}
Files == {DefaultFile} \cup {get_knowledge_file(c) : c \in ChannelIds}
EmptyDisk == [f \in Files |-> AbsentFile]

\* str(message.date); one date is enough
SomeDate == <<"2", "0", "2", "6">>

\* chat.title or chat.username or f"Channel {channel_id}"
ChannelTitle(channel_id) ==
    IF channel_id = -1 THEN <<"N", "e", "w", "s">>
    ELSE ChannelLabel(channel_id)

\* the disk after learning the texts one after the other with every save
\* succeeding, by /add (app.py) and by channel posts
RECURSIVE AddAll(_, _)
AddAll(texts, disk) ==
    IF texts = <<>> THEN disk
    ELSE AddAll(Tail(texts), add_term(disk, Head(texts), SomeDate, "ok").disk)

RECURSIVE PostAll(_, _, _)
PostAll(texts, channel_id, disk) ==
    IF texts = <<>> THEN disk
    ELSE PostAll(Tail(texts), channel_id,
                 handle_channel_message(disk, channel_id, ChannelTitle(channel_id),
                                        Head(texts), SomeDate, "ok").disk)

RECURSIVE PostAllSb(_, _, _)
PostAllSb(texts, channel_id, disk) ==
    IF texts = <<>> THEN disk
    ELSE PostAllSb(Tail(texts), channel_id,
                   handle_channel_message_sb(
                       disk, channel_id, ChannelTitle(channel_id), Head(texts),
                       create_smart_entry(Head(texts), ChannelTitle(channel_id)),
                       SomeDate, "ok").disk)

Users == {1}

\* the disk after saving the texts as notes (study_bot.py, a user in
\* awaiting_note each time)
RECURSIVE SaveAll(_, _)
SaveAll(texts, disk) ==
    IF texts = <<>> THEN disk
    ELSE SaveAll(Tail(texts),
                 save_step(disk, [u \in Users |-> AwaitingNote], 1,
                           create_smart_entry(Head(texts), ManualLabel),
                           SomeDate, "ok").disk)

\* the windows of a pool, forwards and backwards
Reverse(xs) == [i \in 1..Len(xs) |-> xs[Len(xs) + 1 - i]]
Windows(pool) ==
    LET forwards == {SubSeq(pool, i, j) : i \in 1..(Len(pool) + 1), j \in 0..Len(pool)}
    IN  forwards \cup {Reverse(w) : w \in forwards}

-----------------------------------------------------------------------------
(* SpecLoad: load_knowledge on a disk whose files are absent, corrupt or   *)
(* hold a mapping.                                                         *)

StoredMappings ==
    {<<>>,
     AddAll(<<<<"a", " ", "-", " ", "x">>>>, EmptyDisk)[DefaultFile].data,
     AddAll(<<<<"a", " ", "-", " ", "x">>, <<"B", ":", " ", "y">>>>, EmptyDisk)[DefaultFile].data}

FileContents == {AbsentFile, CorruptFile} \cup {JsonFile(m) : m \in StoredMappings}

\* the partitions loaded: the default one and channels; -1 and 1 name the
\* same file
LoadIds == {NoneId, -1, 1, 2}

InitLoad ==
    /\ NoStore
    /\ call \in {[name |-> "input_load", disk |-> d, channel_id |-> c] :
                    d \in [Files -> FileContents], c \in LoadIds}

LoadKnowledge ==
    /\ call.name = "input_load"
    /\ call' = [name |-> "load_knowledge", disk |-> call.disk,
                channel_id |-> call.channel_id,
                out |-> load_knowledge(call.disk, call.channel_id)]
    /\ UNCHANGED <<bot, files, user_states, op>>

NextLoad == LoadKnowledge

SpecLoad == InitLoad /\ [][NextLoad]_vars

\* the file behind partition p
BackingFile(disk, p) == disk[IF p = NoneId THEN DefaultFile ELSE get_knowledge_file(p)]

\* C10: load_knowledge(p) returns the stored mapping when the file of
\* partition p is present and parses, and the empty mapping, without
\* raising, when the file is absent or its content is not JSON.
C10_LoadReturnsMappingOrEmpty ==
    call.name = "load_knowledge" =>
        LET f == BackingFile(call.disk, call.channel_id)
        IN  /\ ~call.out.raised
            /\ f.kind = "json" => call.out.value = f.data
            /\ f.kind \in {"absent", "corrupt"} => call.out.value = <<>>

\* C10 witness: a corrupt channel file was loaded, and gave the empty mapping
C10_LoadedCorruptFile ==
    /\ call.name = "load_knowledge"
    /\ call.channel_id # NoneId
    /\ BackingFile(call.disk, call.channel_id).kind = "corrupt"
    /\ ~call.out.raised
    /\ call.out.value = <<>>

-----------------------------------------------------------------------------
(* SpecSearch: the per-partition searches on partitions the handlers have  *)
(* written.                                                                *)

AppPool ==
    << <<"d", "a", "t", "a", " ", "-", " ", "x">>,
       <<"D", "a", "t", "a", "b", "a", "s", "e", ":", " ", "x">>,
       <<"d", "a", "t", " ", "-", " ", "x">>,
       <<"D", "a", "t", "e", " ", "=", " ", "x">>,
       <<"d", "a", "t", "a", " ", "s", "e", "t", " ", "-", " ", "x">>,
       <<"M", "e", "t", "a", "d", "a", "t", "a", " ", "-", " ", "x">>,
       <<"b", "e", "t", "a", " ", "-", " ", "x">>,
       <<"b", "i", "g", " ", "d", "a", "t", "a", " ", "-", " ", "x">> >>

StudyPool ==
    << <<"D", "a", "t", "a", " ", "-", " ", "f", "a", "c", "t", "s">>,
       <<"L", "o", "g", "s", ":", " ", "d", "a", "t", "a", "a", " ", "d", "a", "t", "a", "b", " ", "d", "a", "t", "a", "c", " ", "d", "a", "t", "a", "d", " ", "d", "a", "t", "a", "e", " ", "d", "a", "t", "a", "f", " ", "d", "a", "t", "a", "g">>,
       <<"S", "e", "t", "s", ":", " ", "d", "a", "t", "a", "a", " ", "d", "a", "t", "a", "b", " ", "d", "a", "t", "a", "c", " ", "d", "a", "t", "a", "d", " ", "d", "a", "t", "a", "e", " ", "d", "a", "t", "a", "f">>,
       <<"D", "a", "t", "a", "b", "a", "s", "e", " ", "-", " ", "x">>,
       <<"M", "e", "t", "a", "d", "a", "t", "a", " ", "-", " ", "x">>,
       <<"D", "a", "t", "e", " ", "-", " ", "x">>,
       <<"N", "o", "t", "e", " ", "-", " ", "d", "a", "t", "a">>,
       <<"P", "a", "i", "r", " ", "-", " ", "d", "a", "t", "a", " ", "d", "a", "t", "a", "a">>,
       <<"M", "i", "s", "c", " ", "-", " ", "u", "p", "d", "a", "t", "a", "1">>,
       <<"D", "a", "t", "a", " ", "s", "e", "t", " ", "-", " ", "x">>,
       <<"D", "a", "t", " ", "-", " ", "x">>,
       <<"B", "i", "g", " ", "d", "a", "t", "a", " ", "-", " ", "x">> >>

Queries ==
    { <<"d", "a", "t", "a">>,
      <<" ", "D", "A", "T", "A", " ">>,
      <<"d", "a", "t", "e">>,
      <<"z", "z", "z", "z">>,
      <<"b", "i", "g", " ", "d", "a", "t", "a">>,
      <<>> }

AppPartitions == {AddAll(w, EmptyDisk)[DefaultFile].data : w \in Windows(AppPool) \ {<<>>}}
StudyPartitions ==
    {PostAllSb(w, 2, EmptyDisk)[2].data :
        w \in Windows(StudyPool) \ {<<>>}}

InitSearch ==
    /\ NoStore
    /\ call \in {[name |-> "input_search", program |-> "app", query |-> q, knowledge |-> k] :
                    q \in Queries, k \in AppPartitions}
            \cup {[name |-> "input_search", program |-> "study", query |-> q, knowledge |-> k] :
                    q \in Queries, k \in StudyPartitions}

SearchKnowledge ==
    /\ call.name = "input_search"
    /\ call.program = "app"
    /\ call' = [name |-> "search_knowledge", query |-> call.query,
                knowledge |-> call.knowledge, cap |-> 5,
                out |-> search_knowledge(call.query, call.knowledge)]
    /\ UNCHANGED <<bot, files, user_states, op>>

SmartSearch ==
    /\ call.name = "input_search"
    /\ call.program = "study"
    /\ call' = [name |-> "smart_search", query |-> call.query,
                knowledge |-> call.knowledge, cap |-> 10,
                out |-> smart_search(call.query, call.knowledge)]
    /\ UNCHANGED <<bot, files, user_states, op>>

NextSearch == SearchKnowledge \/ SmartSearch

SpecSearch == InitSearch /\ [][NextSearch]_vars

\* the scores 1.0, 0.8 and 0.6 of app.py, in millionths
ScoreExact == 1000000
ScorePartial == 800000
ScoreFuzzy == 600000

\* C1: app.py search_knowledge: when normalize_term(query) is a key of the
\* partition, the first result is that key with score 1.0, and every other
\* result is a substring (0.8) or fuzzy (0.6) one behind it.
C1_ExactFirst ==
    (call.name = "search_knowledge"
        /\ dict_has(call.knowledge, normalize_term(call.query))) =>
        /\ call.out # <<>>
        /\ call.out[1].term = normalize_term(call.query)
        /\ call.out[1].score = ScoreExact
        /\ \A i \in 2..Len(call.out) : call.out[i].score \in {ScorePartial, ScoreFuzzy}

\* C1 witness: an exact match came first, with a substring match and a
\* fuzzy match behind it
C1_ExactAheadOfBothTiers ==
    /\ call.name = "search_knowledge"
    /\ dict_has(call.knowledge, normalize_term(call.query))
    /\ call.out[1].score = ScoreExact
    /\ \E i, j \in 2..Len(call.out) :
           call.out[i].score = ScorePartial /\ call.out[j].score = ScoreFuzzy

\* C2: study_bot.py smart_search: when normalize_term(query) is a key of
\* the partition, the result for that key has score 1.0 and is the first,
\* and no other result has a score above 1.0 or stands before it.
C2_ExactFirstSmart ==
    (call.name = "smart_search"
        /\ dict_has(call.knowledge, normalize_term(call.query))) =>
        /\ call.out # <<>>
        /\ call.out[1].term = normalize_term(call.query)
        /\ call.out[1].score = ScoreExact
        /\ \A i \in 2..Len(call.out) : call.out[i].score <= ScoreExact

\* C3: the list a per-partition search returns is in non-increasing score
\* order, holds each key at most once and has at most cap entries (5 for
\* search_knowledge, 10 for smart_search).
C3_RankedUniqueCapped ==
    call.name \in {"search_knowledge", "smart_search"} =>
        /\ \A i, j \in DOMAIN call.out : i < j => call.out[i].score >= call.out[j].score
        /\ \A i, j \in DOMAIN call.out : call.out[i].term = call.out[j].term => i = j
        /\ Len(call.out) <= call.cap
        /\ call.cap = IF call.name = "search_knowledge" THEN 5 ELSE 10

\* C3 witness: smart_search cut its list at 10 with more than 10 keys in
\* the partition matching, and the list holds different scores
C3_SmartSearchCut ==
    /\ call.name = "smart_search"
    /\ Len(call.out) = 10
    /\ Len(call.knowledge) > 10
    /\ normalize_term(call.query) = <<"d", "a", "t", "a">>
    /\ call.out[1].score > call.out[10].score

-----------------------------------------------------------------------------
(* SpecCross: the cross-partition searches on disks the handlers have      *)
(* written: the manual partition, the channel files 1 and 2.               *)

CrossManual ==
    << <<"D", "a", "t", "a", " ", "-", " ", "f", "a", "c", "t", "s">>,
       <<"L", "o", "g", "s", ":", " ", "d", "a", "t", "a", "a", " ", "d", "a", "t", "a", "b">>,
       <<"D", "a", "t", " ", "-", " ", "x">>,
       <<"D", "a", "t", "a", " ", "s", "e", "t", " ", "-", " ", "x">> >>
CrossNews ==
    << <<"L", "o", "g", "s", " ", "-", " ", "d", "a", "t", "a">>,
       <<"D", "a", "t", "a", ":", " ", "o", "t", "h", "e", "r">>,
       <<"D", "a", "t", "a", "b", "a", "s", "e", " ", "-", " ", "x">>,
       <<"M", "e", "t", "a", "d", "a", "t", "a", " ", "-", " ", "x">> >>
CrossTwo ==
    << <<"B", "i", "g", " ", "d", "a", "t", "a", " ", "-", " ", "x">>,
       <<"D", "a", "t", "e", " ", "=", " ", "x">>,
       <<"D", "a", "t", "a", " ", "-", " ", "t", "h", "i", "r", "d">> >>

Prefixes(pool) == {SubSeq(pool, 1, n) : n \in 0..Len(pool)}
Suffixes(pool) == {SubSeq(pool, n, Len(pool)) : n \in 1..(Len(pool) + 1)}

\* the second channel file may also be corrupt
WithCorruptTwo(disk) == {disk, [disk EXCEPT ![2] = CorruptFile]}

AppDisks ==
    UNION {WithCorruptTwo(
               PostAll(c2, 2,
                   PostAll(c1, -1, AddAll(m, EmptyDisk)))) :
           m \in Prefixes(CrossManual) \cup Suffixes(CrossManual),
           c1 \in Prefixes(CrossNews) \cup Suffixes(CrossNews),
           c2 \in Suffixes(CrossTwo)}

StudyDisks ==
    UNION {WithCorruptTwo(
               PostAllSb(c2, 2,
                   PostAllSb(c1, -1, SaveAll(m, EmptyDisk)))) :
           m \in Prefixes(CrossManual) \cup Suffixes(CrossManual),
           c1 \in Prefixes(CrossNews) \cup Suffixes(CrossNews),
           c2 \in Suffixes(CrossTwo)}

CrossQueries ==
    { <<"d", "a", "t", "a">>,
      <<" ", "L", "o", "g", "s">>,
      <<"z", "z", "z", "z">> }

InitCross ==
    /\ NoStore
    /\ call \in {[name |-> "input_cross", program |-> b, query |-> q, disk |-> d, order |-> o] :
                    b \in {"app"}, q \in CrossQueries, d \in AppDisks,
                    o \in Orders({1, 2})}
            \cup {[name |-> "input_cross", program |-> b, query |-> q, disk |-> d, order |-> o] :
                    b \in {"study"}, q \in CrossQueries, d \in StudyDisks,
                    o \in Orders({1, 2})}

\* glob yields the channel files that exist, in the drawn order
GlobOrder(disk, order) == SelectSeq(order, LAMBDA f : f \in channel_files(disk))

SearchTerm ==
    /\ call.name = "input_cross"
    /\ call.program = "app"
    /\ \E found \in {search_term(call.disk, call.query, GlobOrder(call.disk, call.order))} :
           call' = [name |-> "search_term", query |-> call.query, disk |-> call.disk,
                    reply |-> found.reply, all_results |-> found.all_results,
                    shown |-> found.shown]
    /\ UNCHANGED <<bot, files, user_states, op>>

SearchContent ==
    /\ call.name = "input_cross"
    /\ call.program = "study"
    /\ \E found \in {search_content(call.disk, call.query, GlobOrder(call.disk, call.order))} :
           call' = [name |-> "search_content", query |-> call.query, disk |-> call.disk,
                    reply |-> found.reply, all_results |-> found.all_results,
                    shown |-> found.shown]
    /\ UNCHANGED <<bot, files, user_states, op>>

NextCross == SearchTerm \/ SearchContent

SpecCross == InitCross /\ [][NextCross]_vars

Searched == call.name \in {"search_term", "search_content"}

\* the matches of a key in the partitions, and the best score among them
MatchesOf(term) ==
    {call.all_results[i] : i \in {j \in DOMAIN call.all_results :
                                      call.all_results[j].term = term}}
BestScore(term) == SetMax({m.score : m \in MatchesOf(term)})

\* the manual partition's matches are tagged with channel id 0
FromManual(r) == r.channel_id = 0

\* C4: the list a cross-partition search displays holds each key at most
\* once and at most 5 entries, in non-increasing score order, and the entry
\* kept for a key has the highest score the key was matched with in any
\* partition.
C4_CrossRankedUniqueBest ==
    Searched =>
        /\ \A i, j \in DOMAIN call.shown : call.shown[i].term = call.shown[j].term => i = j
        /\ Len(call.shown) <= 5
        /\ \A i, j \in DOMAIN call.shown : i < j => call.shown[i].score >= call.shown[j].score
        /\ \A i \in DOMAIN call.shown :
               /\ call.shown[i] \in MatchesOf(call.shown[i].term)
               /\ call.shown[i].score = BestScore(call.shown[i].term)

\* C4 witness: more than 5 keys were matched, 5 are displayed, and one of
\* them was matched in two partitions with different scores
C4_CutAndBestKept ==
    /\ Searched
    /\ Len(call.shown) = 5
    /\ Cardinality({call.all_results[i].term : i \in DOMAIN call.all_results}) > 5
    /\ \E i \in DOMAIN call.shown :
           \E m \in MatchesOf(call.shown[i].term) : m.score < call.shown[i].score

\* the keys displayed that the manual partition and a channel partition
\* both matched with the key's best score
TiedAtBest ==
    {i \in DOMAIN call.shown :
        /\ \E m \in MatchesOf(call.shown[i].term) :
               FromManual(m) /\ m.score = BestScore(call.shown[i].term)
        /\ \E c \in MatchesOf(call.shown[i].term) :
               ~FromManual(c) /\ c.score = BestScore(call.shown[i].term)}

\* C5, as amended: when the manual partition and a channel partition match
\* the same key with an equal score (the best of that key), the entry
\* displayed for the key is the manual one.
C5_TieKeepsManual ==
    Searched => \A i \in TiedAtBest : FromManual(call.shown[i])

\* C5 witness: a key matched with equal best score in the manual partition
\* and in a channel partition is displayed
C5_TieDisplayed == Searched /\ TiedAtBest # {}

\* C5 as stated: on such a tie the entry displayed is the channel one.
C5_TieKeepsChannel ==
    Searched => \A i \in TiedAtBest : ~FromManual(call.shown[i])

-----------------------------------------------------------------------------
(* Spec: one of the two programs runs, starting without any file; its      *)
(* handlers run one at a time.                                             *)

MaxDefs == 2

\* what users send after /add, and what channels post
AppTexts ==
    { <<"a", " ", "-", " ", "x">>,
      <<" ", "A", ":", " ", "x">>,
      <<"a", "b", " ", "c">>,
      <<"a", "b">> }

\* what users send after /delete and /search, and as private messages
AppQueries ==
    { <<"a">>,
      <<" ", "A", " ">>,
      <<>> }

\* the buttons users press in the model
Buttons == {BtnSaveNote, BtnDelete, BtnHelp}

\* no record holds more than MaxDefs definitions
DefsWithin(disk) ==
    \A f \in DOMAIN disk :
        \A i \in DOMAIN disk[f].data : Len(disk[f].data[i].rec.definitions) <= MaxDefs

\* the outcomes of the saves of one handler; a file the handler does not
\* save has no outcome to choose
OutcomesFor(saved) ==
    {o \in [Files -> SaveOutcomes] : \A f \in Files \ saved : o[f] = "ok"}

\* the files whose mapping holds the key of term
Holders(disk, term) ==
    {f \in Files : dict_has(load_knowledge(disk, IF f = DefaultFile THEN NoneId ELSE f).value,
                            normalize_term(term))}

GlobOrders(disk) == Orders(channel_files(disk))

\* the orders to choose from for one handler; one that does not list the
\* channel files has no order to choose
GlobOrdersFor(disk, globs) ==
    IF globs THEN GlobOrders(disk)
    ELSE {CHOOSE order \in GlobOrders(disk) : TRUE}

Init ==
    /\ bot \in {"app", "study"}
    /\ files = EmptyDisk
    /\ user_states = [u \in Users |-> StateNone]
    /\ op = [name |-> "none", reply |-> "none"]
    /\ call = NoCall

AddTerm ==
    /\ bot = "app"
    /\ \E text \in AppTexts, outcome \in SaveOutcomes :
           \E r \in {add_term(files, text, SomeDate, outcome)} :
               /\ DefsWithin(r.disk)
               /\ files' = r.disk
               /\ op' = [name |-> "add_term", reply |-> r.reply]
    /\ UNCHANGED <<bot, user_states, call>>

AppChannelPost ==
    /\ bot = "app"
    /\ \E channel_id \in ChannelIds, text \in AppTexts, outcome \in SaveOutcomes :
           \E r \in {handle_channel_message(files, channel_id, ChannelTitle(channel_id),
                                             text, SomeDate, outcome)} :
               /\ DefsWithin(r.disk)
               /\ files' = r.disk
               /\ op' = [name |-> "handle_channel_message", reply |-> r.reply]
    /\ UNCHANGED <<bot, user_states, call>>

DeleteTerm ==
    /\ bot = "app"
    /\ \E text \in AppQueries, order \in GlobOrders(files) :
           \E outcomes \in OutcomesFor(Holders(files, text)) :
               \E r \in {delete_term(files, text, order, outcomes)} :
                   /\ files' = r.disk
                   /\ op' = [name |-> "delete_term", reply |-> r.reply]
    /\ UNCHANGED <<bot, user_states, call>>

SearchTermCommand ==
    /\ bot = "app"
    /\ \E text \in AppQueries, order \in GlobOrders(files) :
           op' = [name |-> "search_term", reply |-> search_term(files, text, order).reply]
    /\ UNCHANGED <<bot, files, user_states, call>>

AppHandleMessage ==
    /\ bot = "app"
    /\ \E text \in AppQueries, order \in GlobOrders(files) :
           op' = [name |-> "handle_message",
                  reply |-> handle_message_app(files, text, order).reply]
    /\ UNCHANGED <<bot, files, user_states, call>>

\* /save and /delete of study_bot.py
SaveNote ==
    /\ bot = "study"
    /\ \E user_id \in Users :
           /\ user_states' = [user_states EXCEPT ![user_id] = AwaitingNote]
           /\ op' = [name |-> "save_note", reply |-> "save_prompt"]
    /\ UNCHANGED <<bot, files, call>>

DeleteEntry ==
    /\ bot = "study"
    /\ \E user_id \in Users :
           /\ user_states' = [user_states EXCEPT ![user_id] = AwaitingDelete]
           /\ op' = [name |-> "delete_entry", reply |-> "delete_prompt"]
    /\ UNCHANGED <<bot, files, call>>

StudyHandleMessage ==
    /\ bot = "study"
    /\ \E user_id \in Users, text \in StudyTexts \cup Buttons :
           LET \* entry = create_smart_entry(text, "Manual") is the same for
               \* every outcome of the save and of the replies
               handled(made) ==
                   \E order \in GlobOrdersFor(files,
                                              text \notin Buttons
                                              /\ user_states[user_id] # AwaitingNote) :
                     \E outcomes \in OutcomesFor(
                                         IF user_states[user_id] = AwaitingNote
                                         THEN {DefaultFile}
                                         ELSE IF user_states[user_id] = AwaitingDelete
                                         THEN Holders(files, text) ELSE {}) :
                       \E tried \in {handle_message_try(files, user_states, user_id,
                                                         text, made, SomeDate, order,
                                                         outcomes)} :
                         \E raising \in RepliesRaising :
                           \E r \in {handle_message_except(tried, user_states,
                                                            user_id, text, raising)} :
                               /\ DefsWithin(r.disk)
                               /\ files' = r.disk
                               /\ user_states' = r.states
                               /\ op' = [name |-> "handle_message", reply |-> r.reply]
           IN  handled(create_smart_entry(str_strip(text), ManualLabel))
    /\ UNCHANGED <<bot, call>>

StudyChannelPost ==
    /\ bot = "study"
    /\ \E channel_id \in ChannelIds, text \in StudyTexts :
           \E made \in {create_smart_entry(text, ChannelTitle(channel_id))} :
               \E outcome \in SaveOutcomes :
                   \E r \in {handle_channel_message_sb(files, channel_id,
                                                        ChannelTitle(channel_id), text,
                                                        made, SomeDate, outcome)} :
                       /\ DefsWithin(r.disk)
                       /\ files' = r.disk
                       /\ op' = [name |-> "handle_channel_message", reply |-> r.reply]
    /\ UNCHANGED <<bot, user_states, call>>

\* /cancel: main() registers handlers for start, help, save, search, list,
\* channels, delete and stats only, and handle_message for text that is no
\* command; the update of a /cancel reaches no handler
CancelCommand ==
    /\ bot = "study"
    /\ op' = [name |-> "cancel", reply |-> "none"]
    /\ UNCHANGED <<bot, files, user_states, call>>

Next ==
    \/ AddTerm
    \/ AppChannelPost
    \/ DeleteTerm
    \/ SearchTermCommand
    \/ AppHandleMessage
    \/ SaveNote
    \/ DeleteEntry
    \/ StudyHandleMessage
    \/ StudyChannelPost
    \/ CancelCommand

Spec == Init /\ [][Next]_vars

\* the mappings stored on the disk
StoredPartitions == {files[f].data : f \in {g \in Files : files[g].kind = "json"}}

\* C9: starting from empty partitions, after any adds, channel posts and
\* deletes, the key of every record of every partition is
\* normalize_term(original_term) of the record, and no partition holds two
\* records of one normalized key.
C9_KeyIsNormalizedTerm ==
    \A k \in StoredPartitions :
        /\ \A i \in DOMAIN k : k[i].key = normalize_term(k[i].rec.original_term)
        /\ \A i, j \in DOMAIN k :
               normalize_term(k[i].rec.original_term) = normalize_term(k[j].rec.original_term)
                   => i = j

\* C9 witness: a record whose term was written with a capital has got a
\* second definition, under its one lower-case key
C9_SecondSpellingMerged ==
    \E k \in StoredPartitions :
        \E i \in DOMAIN k :
            /\ k[i].rec.original_term # k[i].key
            /\ Len(k[i].rec.definitions) >= 2

\* C11: a partition file that does not parse is never overwritten: once a
\* file of the disk is corrupt, every step of either bot (add, channel
\* post, note, delete) leaves that file as it was.
C11_CorruptFileKept ==
    [][\A f \in Files : files[f] = CorruptFile => files'[f] = CorruptFile]_vars

-----------------------------------------------------------------------------
(* SpecSave: save_knowledge on a disk whose files are absent, corrupt or   *)
(* hold a mapping, followed by load_knowledge of the same partition; and   *)
(* the save of what load_knowledge returned.                               *)

\* posts with a quote, a backslash before an n and a line break in them
SaveTexts ==
    { <<"a", ":", " ", "\"", "\\", "n">>,
      <<"B", " ", "-", " ", "x", "\n", "\\">>,
      <<"T", "a", "b", "s", ":", " ", "x", "\t", "y">> }

\* the mappings the handlers hand to save_knowledge: the record of /add or
\* of a channel post of app.py, and the entry of study_bot.py, under the
\* normalized term
AppRecord(text) ==
    LET parsed == extract_definition(text)
    IN  [key |-> normalize_term(parsed.term),
         rec |-> [original_term |-> parsed.term,
                  definitions |-> <<Item(parsed.definition, SomeDate, ManualSource, Absent)>>,
                  definition |-> Absent, added |-> SomeDate,
                  channel |-> Absent, related |-> <<>>]]

StudyRecord(text) ==
    LET entry == create_smart_entry(text, ChannelTitle(-1))
    IN  [key |-> normalize_term(entry.original_term),
         rec |-> [entry EXCEPT !.added = SomeDate]]

SaveMappings ==
    {<<>>} \cup {<<AppRecord(t)>> : t \in SaveTexts}
           \cup {<<StudyRecord(t)>> : t \in SaveTexts}
           \cup {<<AppRecord(t), AppRecord(u)>> :
                    t \in {<<"a", ":", " ", "\"", "\\", "n">>},
                    u \in {<<"B", " ", "-", " ", "x", "\n", "\\">>}}

\* the files before the save
SaveDisks == {[f \in Files |-> IF f = g THEN c ELSE AbsentFile] :
                 g \in Files, c \in FileContents}

InitSave ==
    /\ NoStore
    /\ call \in {[name |-> "input_save", disk |-> d, data |-> x,
                  channel_id |-> c, outcome |-> o] :
                    d \in SaveDisks, x \in SaveMappings, c \in LoadIds,
                    o \in SaveOutcomes}

\* save_knowledge(data, channel_id), and load_knowledge(channel_id) after it
SaveKnowledge ==
    /\ call.name = "input_save"
    /\ \E after \in {save_knowledge(call.disk, call.data, call.channel_id,
                                      call.outcome)} :
           call' = [name |-> "save_knowledge", disk |-> call.disk,
                    data |-> call.data, channel_id |-> call.channel_id,
                    outcome |-> call.outcome, after |-> after,
                    out |-> load_knowledge(after, call.channel_id)]
    /\ UNCHANGED <<bot, files, user_states, op>>

\* save_knowledge(load_knowledge(channel_id), channel_id)
SaveLoaded ==
    /\ call.name = "input_save"
    /\ call' = [name |-> "save_loaded", disk |-> call.disk,
                channel_id |-> call.channel_id, outcome |-> call.outcome,
                after |-> save_knowledge(call.disk,
                                         load_knowledge(call.disk, call.channel_id).value,
                                         call.channel_id, call.outcome)]
    /\ UNCHANGED <<bot, files, user_states, op>>

NextSave == SaveKnowledge \/ SaveLoaded

SpecSave == InitSave /\ [][NextSave]_vars

\* C12: a save_knowledge that fails, at open() or part-way through the
\* write, is a no-op: the file of the partition is as it was before, and
\* load_knowledge returns from it what it returned before.
C12_FailedSaveIsNoOp ==
    (call.name = "save_knowledge" /\ call.outcome # "ok") =>
        /\ BackingFile(call.after, call.channel_id)
               = BackingFile(call.disk, call.channel_id)
        /\ load_knowledge(call.after, call.channel_id)
               = load_knowledge(call.disk, call.channel_id)

\* C13: for every mapping x and partition p, load_knowledge(p) after a
\* save_knowledge(x, p) that succeeded returns a mapping equal to x; and a
\* successful save_knowledge(load_knowledge(p), p) leaves the content of
\* the partition unchanged: load_knowledge(p) returns what it returned
\* before, and a file that held a mapping holds the same mapping.
C13_SaveLoadRoundTrip ==
    /\ (call.name = "save_knowledge" /\ call.outcome = "ok") =>
           /\ ~call.out.raised
           /\ call.out.value = call.data
    /\ (call.name = "save_loaded" /\ call.outcome = "ok") =>
           /\ load_knowledge(call.after, call.channel_id)
                  = load_knowledge(call.disk, call.channel_id)
           /\ BackingFile(call.disk, call.channel_id).kind = "json" =>
                  call.after = call.disk

\* C13 witness: a mapping whose definition holds a quote and a backslash
\* was saved to a channel partition and loaded back equal
C13_QuotedTextLoadedBack ==
    /\ call.name = "save_knowledge"
    /\ call.outcome = "ok"
    /\ call.channel_id # NoneId
    /\ \E i \in DOMAIN call.data :
           \E j \in DOMAIN call.data[i].rec.definitions :
               LET text == call.data[i].rec.definitions[j].text
               IN  \E k \in DOMAIN text : text[k] = "\\"
    /\ call.out.value = call.data

-----------------------------------------------------------------------------
(* study_bot.py: escape_markdown.                                          *)

\* text.replace(old, new, 1)
str_replace1(s, old, new) ==
    LET at(i) ==
            IF i = -1 THEN s
            ELSE Slice(s, 0, i) \o new \o Slice(s, i + Len(old), Len(s))
    IN  at(str_find(s, old))

\* text.replace(old, new)
RECURSIVE str_replace(_, _, _)
str_replace(s, old, new) ==
    LET at(i) ==
            IF i = -1 THEN s
            ELSE Slice(s, 0, i) \o new
                     \o str_replace(Slice(s, i + Len(old), Len(s)), old, new)
    IN  at(str_find(s, old))

\* the matches of r'```[\s\S]*?```' from pos on: a fence, and the text up to
\* the next fence
RECURSIVE finditer_code_block(_, _)
finditer_code_block(s, pos) ==
    LET fence == <<Backtick, Backtick, Backtick>>
        \* s.find(fence, from)
        find_from(from) ==
            LET at(r) == IF r = -1 THEN -1 ELSE r + from
            IN  at(str_find(Slice(s, from, Len(s)), fence))
        closed(open, close) ==
            IF close = -1 THEN <<>>
            ELSE <<Slice(s, open, close + 3)>> \o finditer_code_block(s, close + 3)
        opened(open) ==
            IF open = -1 THEN <<>> ELSE closed(open, find_from(open + 3))
    IN  opened(find_from(pos))

\* the matches of r'`[^`\n]+`' from pos on: a backtick, the characters that
\* are neither a backtick nor a line break, at least one, and a backtick
RECURSIVE finditer_inline_code(_, _)
finditer_inline_code(s, pos) ==
    LET \* s.find("`", from)
        find_from(from) ==
            LET at(r) == IF r = -1 THEN -1 ELSE r + from
            IN  at(str_find(Slice(s, from, Len(s)), <<Backtick>>))
        RECURSIVE code_run_end(_)
        code_run_end(i) ==
            IF i < Len(s) /\ s[i + 1] \notin {Backtick, "\n"} THEN code_run_end(i + 1)
            ELSE i
        tried(open, end) ==
            IF end > open + 1 /\ end < Len(s) /\ s[end + 1] = Backtick
            THEN <<Slice(s, open, end + 1)>> \o finditer_inline_code(s, end + 1)
            ELSE finditer_inline_code(s, open + 1)
        opened(open) ==
            IF open = -1 THEN <<>> ELSE tried(open, code_run_end(open + 1))
    IN  opened(find_from(pos))

escape_markdown(text, preserve_code) ==
    LET \* special_chars when preserve_code is false, and when it is true
        special_chars ==
            <<"_", "*", "[", "]", "(", ")", "~", Backtick, ">", "#", "+", "-", "=",
              "|", "{", "}", ".", "!">>
        special_chars_code ==
            <<"_", "*", "[", "]", "(", ")", "~", ">", "#", "+", "-", "=",
              "|", "{", "}", ".", "!">>
        CodeBlockName == <<"C", "O", "D", "E", "B", "L", "O", "C", "K">>
        InlineCodeName == <<"I", "N", "L", "I", "N", "E", "C", "O", "D", "E">>
        \* f"__CODEBLOCK{n}__" and f"__INLINECODE{n}__"
        placeholder(name, n) == <<"_", "_">> \o name \o IntStr(n) \o <<"_", "_">>
        \* the loops that put the n-th placeholder for the first occurrence
        \* of the n-th match, from the n-th match on (n counts from 0)
        RECURSIVE extract_codes(_, _, _, _)
        extract_codes(t, codes, name, n) ==
            IF n >= Len(codes) THEN t
            ELSE extract_codes(str_replace1(t, codes[n + 1], placeholder(name, n)),
                               codes, name, n + 1)
        \* the loops that put the n-th code back for its placeholder
        RECURSIVE restore_codes(_, _, _, _)
        restore_codes(t, codes, name, n) ==
            IF n >= Len(codes) THEN t
            ELSE restore_codes(str_replace(t, placeholder(name, n), codes[n + 1]),
                               codes, name, n + 1)
        \* for char in special_chars: text = text.replace(char, f'\\{char}'),
        \* from the k-th character of the list on
        RECURSIVE escape_chars(_, _, _)
        escape_chars(t, chars, k) ==
            IF k > Len(chars) THEN t
            ELSE escape_chars(str_replace(t, <<chars[k]>>, <<"\\", chars[k]>>),
                              chars, k + 1)
        restored(code_blocks, inline_codes, escaped) ==
            restore_codes(restore_codes(escaped, code_blocks, CodeBlockName, 0),
                          inline_codes, InlineCodeName, 0)
        inlined(code_blocks, inline_codes, temp_text) ==
            restored(code_blocks, inline_codes,
                     escape_chars(extract_codes(temp_text, inline_codes,
                                                InlineCodeName, 0),
                                  special_chars_code, 1))
        blocked(code_blocks, temp_text) ==
            inlined(code_blocks, finditer_inline_code(temp_text, 0), temp_text)
        preserved(code_blocks) ==
            blocked(code_blocks, extract_codes(text, code_blocks, CodeBlockName, 0))
    IN  IF text = <<>> THEN text
        ELSE IF ~preserve_code THEN escape_chars(text, special_chars, 1)
        ELSE preserved(finditer_code_block(text, 0))

-----------------------------------------------------------------------------
(* SpecEscape: escape_markdown of a text, in both modes.                   *)

MaxSpanTokens == 4

SpanTokens ==
    {<<"a">>, <<Backtick>>, <<Backtick, Backtick, Backtick>>, <<".">>, <<"_">>, <<"\n">>}

RECURSIVE SpanTexts(_)
SpanTexts(n) ==
    IF n = 0 THEN {<<>>}
    ELSE LET shorter == SpanTexts(n - 1)
         IN  shorter \cup {t \o k : t \in shorter, k \in SpanTokens}

InitEscape ==
    /\ NoStore
    /\ call \in {[name |-> "input_escape", text |-> t, preserve_code |-> p] :
                    t \in SpanTexts(MaxSpanTokens), p \in BOOLEAN}

EscapeMarkdown ==
    /\ call.name = "input_escape"
    /\ call' = [name |-> "escape_markdown", text |-> call.text,
                preserve_code |-> call.preserve_code,
                out |-> escape_markdown(call.text, call.preserve_code)]
    /\ UNCHANGED <<bot, files, user_states, op>>

NextEscape == EscapeMarkdown

SpecEscape == InitEscape /\ [][NextEscape]_vars

\* C14: with preserve_code=True, every fenced code span of the text, and
\* every inline code span of a text without fences, appears in the output
\* as it was written.
C14_CodeSpansKept ==
    (call.name = "escape_markdown" /\ call.preserve_code) =>
        /\ \A i \in DOMAIN finditer_code_block(call.text, 0) :
               str_in(finditer_code_block(call.text, 0)[i], call.out)
        /\ ~str_in(<<Backtick, Backtick, Backtick>>, call.text) =>
               \A i \in DOMAIN finditer_inline_code(call.text, 0) :
                   str_in(finditer_inline_code(call.text, 0)[i], call.out)

\* the characters MarkdownV2 gives a meaning to
MarkdownPunctuation ==
    {"_", "*", "[", "]", "(", ")", "~", Backtick, ">", "#", "+", "-", "=", "|",
     "{", "}", ".", "!"}

\* C15: every character of the punctuation set that the output holds outside a
\* code span comes after a backslash: in the whole output when
\* preserve_code is false, and, when preserve_code is true, in the output
\* for a text that holds no code span, where every backtick is unmatched.
C15_PunctuationEscaped ==
    (/\ call.name = "escape_markdown"
     /\ \/ ~call.preserve_code
        \/ /\ finditer_code_block(call.text, 0) = <<>>
           /\ finditer_inline_code(call.text, 0) = <<>>) =>
        \A i \in DOMAIN call.out :
            call.out[i] \in MarkdownPunctuation =>
                i > 1 /\ call.out[i - 1] = "\\"

\* C18: a user in awaiting_note or awaiting_delete who sends the cancel
\* command is in no state afterwards (Idle), and no file has changed.
C18_CancelReturnsToIdle ==
    [][\A u \in Users :
          (op'.name = "cancel" /\ user_states[u] \in {AwaitingNote, AwaitingDelete}) =>
              (user_states'[u] = StateNone /\ files' = files)]_vars


-----------------------------------------------------------------------------
(* SpecHandle: one call of a handler that writes, on a disk the handlers   *)
(* have written and for a user in any conversational state, and then one   *)
(* command that reads.  call keeps the disk and the states the handler     *)
(* started from.                                                           *)

HandleManual ==
    << <<"a", " ", "-", " ", "x">>,
       <<"B", ":", " ", "y">> >>
HandleNews ==
    << <<"a", " ", "-", " ", "z">>,
       <<"c", " ", "-", " ", "w">> >>

\* any one file may also be corrupt
WithCorrupt(disk) == {disk} \cup {[disk EXCEPT ![f] = CorruptFile] : f \in Files}

AppHandleDisks ==
    UNION {WithCorrupt(PostAll(c, -1, AddAll(m, EmptyDisk))) :
           m \in Prefixes(HandleManual), c \in Prefixes(HandleNews)}

StudyHandleDisks ==
    UNION {WithCorrupt(PostAllSb(c, -1, SaveAll(m, EmptyDisk))) :
           m \in Prefixes(HandleManual), c \in Prefixes(HandleNews)}

\* what users send after /delete, and in awaiting_delete
HandleQueries ==
    { <<"a">>,
      <<" ", "A", " ">>,
      <<"c">>,
      <<"z", "z">>,
      <<>> }

\* the texts of the buttons of get_main_menu
MenuButtons ==
    {BtnSearch, BtnListAll, BtnChannels, BtnStatistics, BtnSaveNote, BtnDelete, BtnHelp}

\* what users send to study_bot.py as private messages
HandleTexts ==
    StudyTexts \cup HandleQueries
    \cup {<<"a", " ", "-", " ", "v">>, <<"/", "a">>} \cup MenuButtons

ConversationalStates == {StateNone, AwaitingNote, AwaitingDelete}

\* the chats that post: chat.id is an int of either sign
PostIds == ChannelIds \cup {1}

InitHandle ==
    /\ bot \in {"app", "study"}
    /\ files \in IF bot = "app" THEN AppHandleDisks ELSE StudyHandleDisks
    /\ user_states \in IF bot = "app" THEN {[u \in Users |-> StateNone]}
                       ELSE [Users -> ConversationalStates]
    /\ op = [name |-> "none", reply |-> "none"]
    /\ call = [name |-> "input_handle"]

\* what call keeps of one handler call; id is the user, or the channel of a post
\* listed is deleted_from, the partitions a delete names in its reply
Called(name, id, text, tried, listed, outcomes, raising) ==
    [name |-> name, id |-> id, text |-> text, disk |-> files,
     states |-> user_states, tried |-> tried, listed |-> listed,
     outcomes |-> outcomes, raising |-> raising]

AddTermOnce ==
    /\ call.name = "input_handle"
    /\ bot = "app"
    /\ \E text \in AppTexts, outcomes \in OutcomesFor({DefaultFile}) :
           \E r \in {add_term(files, text, SomeDate, outcomes[DefaultFile])} :
               /\ files' = r.disk
               /\ op' = [name |-> "add_term", reply |-> r.reply]
               /\ call' = Called("add_term", 1, text, r.reply, <<>>, outcomes, 0)
    /\ UNCHANGED <<bot, user_states>>

ChannelPostOnce ==
    /\ call.name = "input_handle"
    /\ bot = "app"
    /\ \E channel_id \in PostIds, text \in AppTexts \cup {<<"a", " ", "-", " ", "v">>} :
         \E outcomes \in OutcomesFor({get_knowledge_file(channel_id)}) :
           \E r \in {handle_channel_message(files, channel_id, ChannelTitle(channel_id),
                                             text, SomeDate,
                                             outcomes[get_knowledge_file(channel_id)])} :
               /\ files' = r.disk
               /\ op' = [name |-> "handle_channel_message", reply |-> r.reply]
               /\ call' = Called("handle_channel_message", channel_id, text, r.reply,
                                 <<>>, outcomes, 0)
    /\ UNCHANGED <<bot, user_states>>

DeleteTermOnce ==
    /\ call.name = "input_handle"
    /\ bot = "app"
    /\ \E text \in HandleQueries, order \in GlobOrders(files) :
           \E outcomes \in OutcomesFor(Holders(files, text)) :
               \E r \in {delete_term(files, text, order, outcomes)} :
                   /\ files' = r.disk
                   /\ op' = [name |-> "delete_term", reply |-> r.reply]
                   /\ call' = Called("delete_term", 1, text, r.reply,
                                     r.deleted_from, outcomes, 0)
    /\ UNCHANGED <<bot, user_states>>

\* a private message to app.py
AppHandleMessageOnce ==
    /\ call.name = "input_handle"
    /\ bot = "app"
    /\ \E text \in HandleQueries \cup {<<"/", "a">>}, order \in GlobOrders(files) :
           \E r \in {handle_message_app(files, text, order)} :
               /\ op' = [name |-> "handle_message", reply |-> r.reply]
               /\ call' = Called("handle_message", 1, text, r.reply, <<>>,
                                 [f \in Files |-> "ok"], 0)
    /\ UNCHANGED <<bot, files, user_states>>

\* /search of app.py for the term of the channel post before it; call
\* keeps the post, the disk searched, the glob order and the results shown
SearchTermAfterPost ==
    /\ call.name = "handle_channel_message"
    /\ bot = "app"
    /\ extract_definition(call.text).found
    /\ \E order \in GlobOrders(files) :
           \E r \in {search_term(files, extract_definition(call.text).term, order)} :
               /\ op' = [name |-> "search_term", reply |-> r.reply]
               /\ call' = [name |-> "search_term", id |-> call.id, text |-> call.text,
                           disk |-> files, order |-> order, shown |-> r.shown]
    /\ UNCHANGED <<bot, files, user_states>>

\* the handlers that write have been called
Written == call.name \in {"add_term", "handle_channel_message", "delete_term", "handle_message"}

\* /stats of either program, after the handler call; call keeps the disk
\* and the number of "Active Channels" of the reply
StatsCommand ==
    /\ Written
    /\ \E order \in GlobOrders(files) :
           \E counted \in {stats(files, order)} :
               /\ op' = [name |-> "stats", reply |-> "statistics"]
               /\ call' = [name |-> "stats", disk |-> files,
                           channels |-> counted.total_channels]
    /\ UNCHANGED <<bot, files, user_states>>

\* /channels of either program, after the handler call:
\* "Active Channels (len(channels))", or "No channels found"
ShowChannels ==
    /\ Written
    /\ \E order \in GlobOrders(files) :
           \E channels \in {get_all_channels(files, order)} :
               /\ op' = [name |-> "show_channels",
                         reply |-> IF channels = <<>> THEN "no_channels" ELSE "channels"]
               /\ call' = [name |-> "show_channels", disk |-> files,
                           channels |-> Len(channels)]
    /\ UNCHANGED <<bot, files, user_states>>

StudyChannelPostOnce ==
    /\ call.name = "input_handle"
    /\ bot = "study"
    /\ \E channel_id \in PostIds, text \in StudyTexts \cup {<<"a", " ", "-", " ", "v">>} :
         \E made \in {create_smart_entry(text, ChannelTitle(channel_id))} :
           \E outcomes \in OutcomesFor({get_knowledge_file(channel_id)}) :
             \E r \in {handle_channel_message_sb(files, channel_id,
                                                  ChannelTitle(channel_id), text, made,
                                                  SomeDate,
                                                  outcomes[get_knowledge_file(channel_id)])} :
               /\ files' = r.disk
               /\ op' = [name |-> "handle_channel_message", reply |-> r.reply]
               /\ call' = Called("handle_channel_message", channel_id, text, r.reply,
                                 <<>>, outcomes, 0)
    /\ UNCHANGED <<bot, user_states>>

HandleMessageOnce ==
    /\ call.name = "input_handle"
    /\ bot = "study"
    /\ \E user_id \in Users, text \in HandleTexts :
           LET handled(made) ==
                   \E order \in GlobOrdersFor(files,
                                              text \notin MenuButtons
                                              /\ user_states[user_id] # AwaitingNote) :
                     \E outcomes \in OutcomesFor(
                                         IF user_states[user_id] = AwaitingNote
                                         THEN {DefaultFile}
                                         ELSE IF user_states[user_id] = AwaitingDelete
                                         THEN Holders(files, text) ELSE {}) :
                       \E tried \in {handle_message_try(files, user_states, user_id,
                                                         text, made, SomeDate, order,
                                                         outcomes)} :
                         \E raising \in RepliesRaising :
                           \E r \in {handle_message_except(tried, user_states,
                                                            user_id, text, raising)} :
                               /\ files' = r.disk
                               /\ user_states' = r.states
                               /\ op' = [name |-> "handle_message", reply |-> r.reply]
                               /\ call' = Called("handle_message", user_id, text,
                                                 tried.reply, tried.deleted_from,
                                                 outcomes, raising)
           IN  handled(create_smart_entry(str_strip(text), ManualLabel))
    /\ UNCHANGED bot

NextHandle ==
    \/ AddTermOnce
    \/ ChannelPostOnce
    \/ DeleteTermOnce
    \/ AppHandleMessageOnce
    \/ SearchTermAfterPost
    \/ StatsCommand
    \/ ShowChannels
    \/ StudyChannelPostOnce
    \/ HandleMessageOnce

SpecHandle == InitHandle /\ [][NextHandle]_vars


\* the entry create_smart_entry makes of the text of the call
MadeOfCall == create_smart_entry(str_strip(call.text), ManualLabel)

\* the manual partition holds the entry under the normalized key of its
\* term: as the record itself, or as the last definition of the record
EntryPresent(made) ==
    LET manual == load_knowledge(files, NoneId).value
        term_norm == normalize_term(made.original_term)
        stored(rec) ==
            \/ /\ rec.original_term = made.original_term
               /\ rec.content = made.content
               /\ rec.added = SomeDate
            \/ /\ rec.definitions # <<>>
               /\ rec.definitions[Len(rec.definitions)].text = made.definition
    IN  /\ files[DefaultFile].kind = "json"
        /\ dict_has(manual, term_norm)
        /\ stored(dict_get(manual, term_norm))

\* the text of the call is a note or a term the state-based branches of
\* handle_message get: no command, no menu button
ReachesStateBranch ==
    /\ call.text # <<>>
    /\ call.text[1] # "/"
    /\ str_strip(call.text) \notin {BtnSearch, BtnListAll, BtnChannels, BtnStatistics,
                                    BtnSaveNote, BtnDelete, BtnHelp}

\* C16: a user in awaiting_note whose text is parsed (a topic is detected)
\* and stored (the save succeeds) ends in Idle, with the entry in the manual
\* partition under the normalized key of its term; a user in awaiting_delete
\* whose text is looked up and deleted where found ends in Idle, whether it
\* was found or not.
C16_NoteStoredDeleteTriedThenIdle ==
    (call.name = "handle_message" /\ ReachesStateBranch) =>
        /\ (/\ call.states[call.id] = AwaitingNote
            /\ call.tried # "no_topic"
            /\ call.outcomes[DefaultFile] = "ok") =>
               /\ user_states[call.id] = StateNone
               /\ EntryPresent(MadeOfCall)
        /\ call.states[call.id] = AwaitingDelete =>
               /\ user_states[call.id] = StateNone
               /\ call.tried \in {"deleted", "not_found"}

\* C16 witness: a note on a term the manual partition already defined was
\* stored as another definition of it, and the user is back in Idle
C16_SecondDefinitionStored ==
    /\ call.name = "handle_message"
    /\ call.states[call.id] = AwaitingNote
    /\ call.outcomes[DefaultFile] = "ok"
    /\ op.reply = "added_another"
    /\ user_states[call.id] = StateNone
    /\ EntryPresent(MadeOfCall)


\* a reply_text of the try block raised: some reply was due, and at least
\* the first one raised
ReplyRaised == call.tried # "none" /\ call.raising >= 1

\* a save of the save or delete step raised inside save_knowledge
SaveRaised ==
    /\ ReachesStateBranch
    /\ \/ /\ call.states[call.id] = AwaitingNote
          /\ call.tried # "no_topic"
          /\ call.outcomes[DefaultFile] # "ok"
       \/ /\ call.states[call.id] = AwaitingDelete
          /\ \E f \in Holders(call.disk, str_strip(call.text)) : call.outcomes[f] # "ok"

\* the general error was the reply, or was tried as the reply and raised
GeneralFailure == op.reply \in {"error", "raised"}

\* C17 as stated: any exception raised while handle_message processes a
\* message, in any conversational state and also inside the save or delete
\* step, leaves the user in Idle with the general failure message as the
\* reply.
C17_AnyExceptionResetsToIdle ==
    (call.name = "handle_message" /\ (ReplyRaised \/ SaveRaised)) =>
        /\ user_states[call.id] = StateNone
        /\ GeneralFailure

\* the message goes to list_terms, show_channels, stats or search_content,
\* which catch what they raise and reply with an error of their own
OwnExceptClause ==
    \/ str_strip(call.text) \in {BtnListAll, BtnChannels, BtnStatistics}
    \/ /\ ReachesStateBranch
       /\ call.states[call.id] = StateNone

\* the number of raising replies that are left for the except clause of
\* handle_message
ReachingExcept ==
    IF call.tried = "none" THEN 0
    ELSE IF OwnExceptClause THEN Max2(call.raising - 1, 0)
    ELSE call.raising

\* C17, amended: an exception that reaches the except clause of
\* handle_message (one that save_knowledge, load_knowledge, the delete
\* step's try or list_terms, show_channels, stats and search_content have
\* not caught themselves) leaves the user in Idle, in any conversational
\* state; the general failure message is the reply, and reaches the user
\* unless that reply raises too.
C17_UncaughtExceptionResetsToIdle ==
    (call.name = "handle_message" /\ ReachingExcept >= 1) =>
        /\ user_states[call.id] = StateNone
        /\ op.reply = IF ReachingExcept = 1 THEN "error" ELSE "raised"

\* C17 witness: the reply that rejects a note without a topic raised; the
\* user who was in awaiting_note got the general error and is in Idle
C17_RejectionRaisedThenIdle ==
    /\ call.name = "handle_message"
    /\ call.states[call.id] = AwaitingNote
    /\ call.tried = "no_topic"
    /\ call.raising = 1
    /\ op.reply = "error"
    /\ user_states[call.id] = StateNone
    /\ files = call.disk


\* C19: a parse failure changes nothing.  After /add with a text that
\* extract_definition finds no (term, definition) pair in, and after a
\* channel post of app.py with such a text, every file of the disk is as it
\* was; after study_bot.py has rejected the note of a user in awaiting_note
\* for lack of a topic (and no exception has reached the except clause of
\* handle_message, C17), every file is as it was and every user's
\* conversational state too: the user is still in awaiting_note.
C19_ParseFailureChangesNothing ==
    /\ (/\ call.name = "add_term"
        /\ ~extract_definition(join_args(str_split(call.text))).found) =>
           /\ files = call.disk
           /\ op.reply \in {"could_not_parse", "usage"}
    /\ (/\ bot = "app"
        /\ call.name = "handle_channel_message"
        /\ ~extract_definition(call.text).found) =>
           files = call.disk
    /\ (/\ call.name = "handle_message"
        /\ ReachesStateBranch
        /\ call.states[call.id] = AwaitingNote
        /\ MadeOfCall.original_term \in {UntitledNote, UntitledNoteLower}
        /\ MadeOfCall.content_type \in {TypeNote, TypeLongForm}
        /\ ReachingExcept = 0) =>
           /\ files = call.disk
           /\ user_states = call.states
           /\ op.reply = "no_topic"

\* C19 witness: a note without a topic was rejected on a disk that holds
\* entries, and the user is still in awaiting_note
C19_NoteRejectedStillAwaiting ==
    /\ call.name = "handle_message"
    /\ call.states[call.id] = AwaitingNote
    /\ op.reply = "no_topic"
    /\ user_states[call.id] = AwaitingNote
    /\ call.disk[DefaultFile].kind = "json"
    /\ files = call.disk


\* the term of the delete request of the call: the words after /delete
\* joined, or the stripped text of a user in awaiting_delete
DeleteRequest ==
    IF call.name = "delete_term" THEN join_args(str_split(call.text))
    ELSE str_strip(call.text)

IsDeleteRequest ==
    \/ call.name = "delete_term" /\ str_split(call.text) # <<>>
    \/ /\ call.name = "handle_message"
       /\ ReachesStateBranch
       /\ call.states[call.id] = AwaitingDelete

\* C20: a delete request (/delete of app.py, the text of a user in
\* awaiting_delete of study_bot.py) for a term whose normalized key is in
\* no partition leaves every file of the disk, the manual one and every
\* channel's, exactly as it was, and "not found" is the reply (the reply of
\* the try block, when it is study_bot.py's and raises).
C20_NotFoundLeavesStore ==
    (IsDeleteRequest /\ Holders(call.disk, DeleteRequest) = {}) =>
        /\ files = call.disk
        /\ call.tried = "not_found"
        /\ (call.raising = 0 => op.reply = "not_found")

\* C20 witness: a term that no partition holds was not found on a disk
\* whose manual partition and channel partition hold other terms
C20_MissOnFilledDisk ==
    /\ IsDeleteRequest
    /\ Holders(call.disk, DeleteRequest) = {}
    /\ op.reply = "not_found"
    /\ load_knowledge(call.disk, NoneId).value # <<>>
    /\ load_knowledge(call.disk, -1).value # <<>>
    /\ files = call.disk


\* the mapping of file f, as load_knowledge returns it
PartitionOf(disk, f) == load_knowledge(disk, IF f = DefaultFile THEN NoneId ELSE f).value

\* the name a delete has for the partition of file f that holds key k:
\* "Manual", or the channel of the record, or "Channel <id>"
HolderName(disk, f, k) ==
    IF f = DefaultFile THEN ManualLabel
    ELSE IF dict_get(PartitionOf(disk, f), k).channel # Absent
    THEN dict_get(PartitionOf(disk, f), k).channel
    ELSE ChannelLabel(f)

\* every save of the call succeeded
NoSaveFailed == \A f \in Files : call.outcomes[f] = "ok"

\* C21: after a delete request for term T (/delete of app.py, the text of a
\* user in awaiting_delete of study_bot.py) none of whose saves failed, no
\* partition holds the key normalize_term(T), every partition holds its
\* other records unchanged and in their order, and the reply names exactly
\* the partitions that held the key, each one once.
C21_DeleteEverywhereNothingElse ==
    (IsDeleteRequest /\ NoSaveFailed) =>
        LET k == normalize_term(DeleteRequest)
            held == Holders(call.disk, DeleteRequest)
        IN  /\ \A f \in Files :
                   /\ ~dict_has(PartitionOf(files, f), k)
                   /\ PartitionOf(files, f) = dict_del(PartitionOf(call.disk, f), k)
                   /\ f \notin held => files[f] = call.disk[f]
            /\ Len(call.listed) = Cardinality(held)
            /\ {call.listed[i] : i \in DOMAIN call.listed}
                   = {HolderName(call.disk, f, k) : f \in held}
            /\ call.tried = IF held = {} THEN "not_found" ELSE "deleted"

\* C21 witness: a term that the manual partition and a channel partition
\* held, next to other terms, was deleted from both
C21_DeletedFromTwo ==
    /\ IsDeleteRequest
    /\ NoSaveFailed
    /\ Cardinality(Holders(call.disk, DeleteRequest)) = 2
    /\ Len(call.listed) = 2
    /\ Holders(files, DeleteRequest) = {}
    /\ \E f \in Files : PartitionOf(files, f) # <<>>


\* the (term, definition) pair an add of app.py parses from its text: the
\* words after /add joined, or the text of the post
AddedPair ==
    IF call.name = "add_term" THEN extract_definition(join_args(str_split(call.text)))
    ELSE extract_definition(call.text)

\* the call is an /add or a channel post of app.py that adds a pair
IsAdd ==
    /\ bot = "app"
    /\ \/ call.name = "add_term" /\ Len(str_split(call.text)) >= 2
       \/ call.name = "handle_channel_message" /\ call.text # <<>>
    /\ AddedPair.found

\* the file of the partition the add is for
AddTarget == IF call.name = "add_term" THEN DefaultFile ELSE get_knowledge_file(call.id)

\* xs is the beginning of ys
IsPrefix(xs, ys) == Len(xs) <= Len(ys) /\ SubSeq(ys, 1, Len(xs)) = xs

\* the record of key k kept all its definitions, in order, and its
\* original_term
KeptDefinitions(before, after, k) ==
    /\ dict_has(after, k)
    /\ IsPrefix(dict_get(before, k).definitions, dict_get(after, k).definitions)
    /\ dict_get(after, k).original_term = dict_get(before, k).original_term

\* C22: in app.py, after an /add or a channel post of a pair whose
\* normalized key the target partition held, the record has all the
\* definitions it had, in order, and one more, the added one, and its
\* original_term; after an add of a new key the record has exactly one
\* definition; and every other record of the partition has kept all its
\* definitions.
C22_AddAppendsKeepsAll ==
    IsAdd =>
        LET k == normalize_term(AddedPair.term)
            before == PartitionOf(call.disk, AddTarget)
            after == PartitionOf(files, AddTarget)
            added(defs) == defs # <<>> /\ defs[Len(defs)].text = AddedPair.definition
        IN  /\ dict_has(after, k)
            /\ added(dict_get(after, k).definitions)
            /\ IF dict_has(before, k)
               THEN /\ KeptDefinitions(before, after, k)
                    /\ Len(dict_get(after, k).definitions)
                           = Len(dict_get(before, k).definitions) + 1
               ELSE Len(dict_get(after, k).definitions) = 1
            /\ \A i \in DOMAIN before : KeptDefinitions(before, after, before[i].key)


\* the files that differ from what they were before the call
ChangedFiles == {f \in Files : files[f] # call.disk[f]}

PostedFile == PartitionOf(files, get_knowledge_file(call.id))

\* the post of the call was learned
PostLearned == call.name = "handle_channel_message" /\ ChangedFiles # {}

\* the channel names of the posting chats whose id is c or -c; a record
\* has the name of the channel whose post created it
NamesOfEitherSign(c) == {ChannelTitle(d) : d \in {e \in PostIds : e = c \/ e = -c}}

StepReplies == {"saved", "updated", "added_another", "no_topic", "deleted", "not_found"}

\* C24: a private message to app.py changes no file of the disk; a
\* private message to study_bot.py from a user in Idle, and the text of a
\* menu button from a user in any state, changes no file either, and the
\* text of a menu button gets neither the save step nor the delete step:
\* it is not stored as a note and not looked up as the term to delete.
C24_OnlyPendingStepsWrite ==
    call.name = "handle_message" =>
        /\ bot = "app" => files = call.disk
        /\ (bot = "study" /\ call.states[call.id] = StateNone) =>
               /\ files = call.disk
               /\ call.tried \notin StepReplies
        /\ (bot = "study" /\ str_strip(call.text) \in MenuButtons) =>
               /\ files = call.disk
               /\ call.tried \notin StepReplies
               /\ call.listed = <<>>
               /\ \A f \in Files : ~dict_has(PartitionOf(files, f), normalize_term(call.text))
                                   \/ dict_has(PartitionOf(call.disk, f), normalize_term(call.text))

\* C24 witness: a user in awaiting_note pressed a menu button on a disk
\* that holds entries; nothing was stored, and the button had its own reply
C24_ButtonInAwaitingNote ==
    /\ call.name = "handle_message"
    /\ bot = "study"
    /\ call.states[call.id] = AwaitingNote
    /\ str_strip(call.text) = BtnListAll
    /\ op.reply = "list"
    /\ PartitionOf(call.disk, DefaultFile) # <<>>
    /\ files = call.disk


\* C27: whenever /add of app.py replies that it added the term, and
\* whenever study_bot.py replies to the note of a user in awaiting_note that
\* the content was saved, the entry is in the manual partition on the disk,
\* whatever happened to the save.
C27_SuccessReplyImpliesStored ==
    /\ (call.name = "add_term" /\ op.reply \in {"added", "added_another"}) =>
           LET manual == PartitionOf(files, DefaultFile)
               k == normalize_term(AddedPair.term)
               added(defs) == defs # <<>> /\ defs[Len(defs)].text = AddedPair.definition
           IN  /\ files[DefaultFile].kind = "json"
               /\ dict_has(manual, k)
               /\ added(dict_get(manual, k).definitions)
    /\ (/\ call.name = "handle_message"
        /\ bot = "study"
        /\ call.states[call.id] = AwaitingNote
        /\ op.reply \in {"saved", "updated", "added_another"}) =>
           EntryPresent(MadeOfCall)


\* the entry that study_bot.py makes of the text of the call: of a private
\* message with the label "Manual", of a post with the name of the channel
StudyMade ==
    IF call.name = "handle_message" THEN MadeOfCall
    ELSE create_smart_entry(call.text, ChannelTitle(call.id))

\* the file of the partition that study_bot.py saves the entry to
StudyTarget ==
    IF call.name = "handle_message" THEN DefaultFile ELSE get_knowledge_file(call.id)

\* study_bot.py saved content with the call, and the save succeeded: the
\* note of a user in awaiting_note that has a topic, or a channel post that
\* is not a short note without a topic
IsStudySave ==
    /\ bot = "study"
    /\ \/ /\ call.name = "handle_message"
          /\ ReachesStateBranch
          /\ call.states[call.id] = AwaitingNote
          /\ call.tried # "no_topic"
       \/ /\ call.name = "handle_channel_message"
          /\ ~(/\ StudyMade.original_term = UntitledNote
               /\ StudyMade.content_type = TypeNote
               /\ Len(str_split(call.text)) < 10)
    /\ NoSaveFailed

\* the texts of the definitions recorded in a record, in order: those of
\* its list "definitions", or its one "definition"
DefinitionsOf(rec) ==
    IF rec.definitions # <<>>
    THEN [i \in 1..Len(rec.definitions) |-> rec.definitions[i].text]
    ELSE IF rec.definition # Absent THEN <<rec.definition>>
    ELSE <<>>

\* C28 as stated: when study_bot.py saves content whose normalized key the
\* partition holds, every definition recorded under the key before is
\* recorded under it afterwards, whatever the content types are.
C28_SaveKeepsDefinitions ==
    IsStudySave =>
        LET k == normalize_term(StudyMade.original_term)
            before == PartitionOf(call.disk, StudyTarget)
            after == PartitionOf(files, StudyTarget)
            kept(old, new) == \A i \in DOMAIN old : \E j \in DOMAIN new : new[j] = old[i]
        IN  dict_has(before, k) =>
                /\ dict_has(after, k)
                /\ kept(DefinitionsOf(dict_get(before, k)), DefinitionsOf(dict_get(after, k)))

\* C28, amended: when study_bot.py saves content whose normalized key the
\* partition holds, and the stored record and the new entry are both of
\* content type "definition", the record has afterwards every definition
\* recorded under the key before, in order, and the new one after them;
\* with any other content types the new entry replaces the stored record,
\* whose definitions are not kept.
C28_DefinitionsKeptOrReplaced ==
    IsStudySave =>
        LET k == normalize_term(StudyMade.original_term)
            before == PartitionOf(call.disk, StudyTarget)
            after == PartitionOf(files, StudyTarget)
            both(old) == /\ old.content_type = TypeDefinition
                         /\ StudyMade.content_type = TypeDefinition
            appended(old, new) ==
                /\ DefinitionsOf(new) = Append(DefinitionsOf(old), StudyMade.definition)
                /\ new.original_term = old.original_term
            replaced(new) ==
                /\ new.content = StudyMade.content
                /\ new.content_type = StudyMade.content_type
                /\ new.original_term = StudyMade.original_term
                /\ new.definition = StudyMade.definition
                /\ new.definitions = <<>>
        IN  dict_has(before, k) =>
                /\ dict_has(after, k)
                /\ IF both(dict_get(before, k))
                   THEN appended(dict_get(before, k), dict_get(after, k))
                   ELSE replaced(dict_get(after, k))

\* C28 witness: a note replaced the record of a definition under the same
\* key; the definition is no longer recorded
C28_NoteReplacedDefinition ==
    /\ IsStudySave
    /\ StudyMade.content_type # TypeDefinition
    /\ dict_has(PartitionOf(call.disk, StudyTarget), normalize_term(StudyMade.original_term))
    /\ DefinitionsOf(dict_get(PartitionOf(call.disk, StudyTarget),
                              normalize_term(StudyMade.original_term))) # <<>>
    /\ DefinitionsOf(dict_get(PartitionOf(files, StudyTarget),
                              normalize_term(StudyMade.original_term))) = <<>>


\* the pair of the channel post 'T - D' that the search of the call follows
PostedPair == extract_definition(call.text)

\* the texts of the definitions of a record of app.py, as search_term
\* displays them
DisplayedDefinitions(data) == [i \in 1..Len(data.definitions) |-> data.definitions[i].text]

\* the post has been learned into the partition of its channel and is there
LearnedThere ==
    LET partition == PartitionOf(call.disk, get_knowledge_file(call.id))
        k == normalize_term(PostedPair.term)
        defs(rec) == DisplayedDefinitions(rec)
    IN  /\ dict_has(partition, k)
        /\ \E j \in DOMAIN defs(dict_get(partition, k)) :
               defs(dict_get(partition, k))[j] = PostedPair.definition

\* the partitions in the order search_term searches them: the manual one,
\* then the channel files in glob order
SearchOrder == <<DefaultFile>> \o call.order

\* the first partition searched that holds key k
FirstHolder(k) ==
    SearchOrder[SetMin({i \in DOMAIN SearchOrder :
                           dict_has(PartitionOf(call.disk, SearchOrder[i]), k)})]

C30_ChannelCountsAgree ==
    (call.name = "stats" /\ \A f \in Files : files[f].kind # "corrupt") =>
        \A order \in GlobOrders(files) : call.channels = Len(get_all_channels(files, order))


-----------------------------------------------------------------------------
(* SpecInterleave: two handler invocations in one event loop.  A handler   *)
(* runs from its dispatch to its first await without giving up the loop:   *)
(* it starts (argument checks, state lookup, load_knowledge), it saves     *)
(* (the change and save_knowledge), and it awaits reply_text, where the    *)
(* other invocation may run.  call keeps the two invocations, the one that *)
(* holds the loop, and the disk and the states they started from.          *)

Tasks == {1, 2}

InterleaveManual == << <<"a", " ", "-", " ", "x">> >>
InterleaveNews == << <<"a", " ", "-", " ", "z">> >>

AppInterleaveDisks ==
    {PostAll(c, -1, AddAll(m, EmptyDisk)) :
     m \in Prefixes(InterleaveManual), c \in Prefixes(InterleaveNews)}

StudyInterleaveDisks ==
    {PostAllSb(c, -1, SaveAll(m, EmptyDisk)) :
     m \in Prefixes(InterleaveManual), c \in Prefixes(InterleaveNews)}

\* the updates that arrive: a handler, the user or the channel, the text
Update(handler, id, text) == [handler |-> handler, id |-> id, text |-> text]

AppUpdates ==
    {Update("add_term", 1, text) :
         text \in {<<"a", " ", "-", " ", "v">>, <<" ", "A", ":", " ", "x">>, <<"a", "b">>}}
    \cup {Update("handle_channel_message", -1, text) :
              text \in {<<"a", " ", "-", " ", "v">>, <<"c", " ", "-", " ", "w">>}}
    \cup {Update("delete_term", 1, text) : text \in {<<"a">>, <<"z", "z">>}}

StudyUpdates ==
    {Update("handle_message", user_id, text) :
         user_id \in Tasks,
         text \in {<<"a", " ", "-", " ", "v">>, <<" ", "A", ":", " ", "x">>, <<"a">>}}
    \cup {Update("handle_channel_message", -1, text) :
              text \in {<<"a", " ", "-", " ", "v">>, <<"c", " ", "-", " ", "w">>}}

\* a mutex-free loop that could switch handlers after every statement
yields_after_every_statement(handler, pc) == TRUE

\* whether the handler gives the loop up once it is at pc: it does at
\* "await update.message.reply_text(...)" and when it returns, and nowhere
\* between load_knowledge and save_knowledge
yields_after(handler, pc) == pc \in {"replying", "done"}

\* handle_channel_message never replies; the other handlers await one reply
\* after their save
awaits_reply(handler) == handler # "handle_channel_message"

\* the files the handler of update u saves, starting from disk and states
SavedBy(u, disk, states) ==
    IF u.handler = "add_term" THEN {DefaultFile}
    ELSE IF u.handler = "handle_channel_message" THEN {get_knowledge_file(u.id)}
    ELSE IF u.handler = "delete_term" THEN Holders(disk, u.text)
    ELSE IF states[u.id] = AwaitingNote THEN {DefaultFile}
    ELSE IF states[u.id] = AwaitingDelete THEN Holders(disk, u.text)
    ELSE {}

\* whether the handler of update u lists the channel files
Globs(u, states) ==
    \/ u.handler = "delete_term"
    \/ u.handler = "handle_message" /\ states[u.id] # AwaitingNote

\* the handler of update u from its dispatch to its first await, on disk
\* and states
Segment(program, u, disk, states, order, outcomes) ==
    LET kept(r) == [disk |-> r.disk, states |-> states, reply |-> r.reply]
        tried(r) == [disk |-> r.disk, states |-> r.states, reply |-> r.reply]
    IN  IF u.handler = "add_term"
        THEN kept(add_term(disk, u.text, SomeDate, outcomes[DefaultFile]))
        ELSE IF u.handler = "delete_term"
        THEN kept(delete_term(disk, u.text, order, outcomes))
        ELSE IF u.handler = "handle_message"
        THEN tried(handle_message_try(disk, states, u.id, u.text,
                                      create_smart_entry(str_strip(u.text), ManualLabel),
                                      SomeDate, order, outcomes))
        ELSE IF program = "app"
        THEN kept(handle_channel_message(disk, u.id, ChannelTitle(u.id), u.text,
                                         SomeDate, outcomes[get_knowledge_file(u.id)]))
        ELSE kept(handle_channel_message_sb(
                      disk, u.id, ChannelTitle(u.id), u.text,
                      create_smart_entry(u.text, ChannelTitle(u.id)), SomeDate,
                      outcomes[get_knowledge_file(u.id)]))

Waiting(u) ==
    [update |-> u, pc |-> "start", disk |-> EmptyDisk,
     states |-> [user_id \in Tasks |-> StateNone], order |-> <<>>,
     outcomes |-> [f \in Files |-> "ok"]]

InitInterleave ==
    /\ bot \in {"app", "study"}
    /\ files \in IF bot = "app" THEN AppInterleaveDisks ELSE StudyInterleaveDisks
    /\ user_states \in IF bot = "app" THEN {[user_id \in Tasks |-> StateNone]}
                       ELSE [Tasks -> {AwaitingNote, AwaitingDelete}]
    /\ op = [name |-> "none", reply |-> "none"]
    /\ \E first, second \in IF bot = "app" THEN AppUpdates ELSE StudyUpdates :
           call = [name |-> "interleave", disk |-> files, states |-> user_states,
                   tasks |-> [t \in Tasks |-> Waiting(IF t = 1 THEN first ELSE second)],
                   running |-> 0, saved |-> <<>>]

\* the loop is free, or task t holds it
Runnable(t) == call.name = "interleave" /\ call.running \in {0, t}

\* the state of task t moves to pc; the loop is given up where the handler yields
Moved(t, task, pc) ==
    [call EXCEPT !.tasks[t] = [task EXCEPT !.pc = pc],
                 !.running = IF yields_after(task.update.handler, pc) THEN 0 ELSE t]

\* the loop dispatches the update of task t: the handler looks the user's
\* state up and loads the knowledge it is going to change
HandlerStarts(t) ==
    /\ Runnable(t)
    /\ call.tasks[t].pc = "start"
    /\ call' = Moved(t, [call.tasks[t] EXCEPT !.disk = files, !.states = user_states],
                     "loaded")
    /\ UNCHANGED <<bot, files, user_states, op>>

\* the handler changes what it loaded and saves it; the files it saves are
\* written from its copy
HandlerSaves(t) ==
    /\ Runnable(t)
    /\ call.tasks[t].pc = "loaded"
    /\ LET task == call.tasks[t]
           u == task.update
       IN  \E order \in GlobOrdersFor(task.disk, Globs(u, task.states)) :
             \E outcomes \in OutcomesFor(SavedBy(u, task.disk, task.states)) :
               \E r \in {Segment(bot, u, task.disk, task.states, order, outcomes)} :
                 /\ files' = [f \in Files |->
                                 IF r.disk[f] # task.disk[f] THEN r.disk[f] ELSE files[f]]
                 /\ user_states' = [user_id \in Tasks |->
                                       IF r.states[user_id] # task.states[user_id]
                                       THEN r.states[user_id] ELSE user_states[user_id]]
                 /\ op' = [name |-> u.handler, reply |-> r.reply]
                 /\ call' = [Moved(t, [task EXCEPT !.order = order,
                                                   !.outcomes = outcomes],
                                   IF awaits_reply(u.handler) THEN "replying" ELSE "done")
                                EXCEPT !.saved = Append(@, t)]
    /\ UNCHANGED bot

\* reply_text returns and the handler ends
ReplySent(t) ==
    /\ Runnable(t)
    /\ call.tasks[t].pc = "replying"
    /\ call' = Moved(t, call.tasks[t], "done")
    /\ op' = [name |-> call.tasks[t].update.handler, reply |-> "sent"]
    /\ UNCHANGED <<bot, files, user_states>>

NextInterleave ==
    \/ \E t \in Tasks : HandlerStarts(t)
    \/ \E t \in Tasks : HandlerSaves(t)
    \/ \E t \in Tasks : ReplySent(t)

SpecInterleave == InitInterleave /\ [][NextInterleave]_vars

\* the handlers of the tasks in the order of their saves, one after the other
RECURSIVE OneAfterTheOther(_, _, _)
OneAfterTheOther(i, disk, states) ==
    IF i > Len(call.saved) THEN [disk |-> disk, states |-> states]
    ELSE LET task == call.tasks[call.saved[i]]
             r == Segment(bot, task.update, disk, states, task.order, task.outcomes)
         IN  OneAfterTheOther(i + 1, r.disk, r.states)

\* what an /add or a channel post of app.py adds: the file, the key, the definition
AddedBy(u) ==
    [file |-> IF u.handler = "add_term" THEN DefaultFile ELSE get_knowledge_file(u.id),
     key |-> normalize_term(extract_definition(IF u.handler = "add_term"
                                               THEN join_args(str_split(u.text))
                                               ELSE u.text).term),
     definition |-> extract_definition(IF u.handler = "add_term"
                                       THEN join_args(str_split(u.text))
                                       ELSE u.text).definition]

Adds(u) ==
    /\ bot = "app"
    /\ u.handler \in {"add_term", "handle_channel_message"}
    /\ extract_definition(IF u.handler = "add_term" THEN join_args(str_split(u.text))
                          ELSE u.text).found
    /\ u.handler = "add_term" => Len(str_split(u.text)) >= 2

BothSaved == call.name = "interleave" /\ Len(call.saved) = 2

AllSavesSucceeded ==
    \A t \in Tasks : \A f \in Files : call.tasks[t].outcomes[f] = "ok"

\* C26: handlers interleave only at their awaits, so no update is lost: a
\* handler that has loaded its copy finds the disk unchanged when it saves
\* (it never writes back a copy loaded before another handler's write), the
\* disk after two invocations is the disk of the two handlers run one after
\* the other, and when both add to one partition of app.py and the saves
\* succeed, the partition holds both definitions.
C26_NoLostUpdate ==
    call.name = "interleave" =>
        /\ \A t \in Tasks :
               call.tasks[t].pc = "loaded" =>
                   /\ call.tasks[t].disk = files
                   /\ call.tasks[t].states = user_states
        /\ BothSaved =>
               /\ files = OneAfterTheOther(1, call.disk, call.states).disk
               /\ user_states = OneAfterTheOther(1, call.disk, call.states).states
        /\ (BothSaved /\ AllSavesSucceeded
            /\ \A t \in Tasks : Adds(call.tasks[t].update)) =>
               \A t \in Tasks :
                   LET added == AddedBy(call.tasks[t].update)
                       knowledge == files[added.file].data
                   IN  /\ files[added.file].kind = "json"
                       /\ dict_has(knowledge, added.key)
                       /\ \E i \in DOMAIN dict_get(knowledge, added.key).definitions :
                              dict_get(knowledge, added.key).definitions[i].text
                                  = added.definition

\* two /add of one term, the second dispatched while the first awaits its
\* reply, both saved
C26_SecondAddDuringFirstReply ==
    /\ BothSaved
    /\ AllSavesSucceeded
    /\ \A t \in Tasks : Adds(call.tasks[t].update)
    /\ AddedBy(call.tasks[1].update).file = AddedBy(call.tasks[2].update).file
    /\ AddedBy(call.tasks[1].update).key = AddedBy(call.tasks[2].update).key
    /\ \E t \in Tasks : call.tasks[t].pc = "replying"

=============================================================================
